---- MODULE Spec2Model ----
(***************************************************************************)
(* Fallback orchestrator of the financial data scraper                     *)
(* (backend/src/scrapingOrchestrator.ts, orchestrateFinancialDataScraping).*)
(* One run of the function is modelled statement group by statement group: *)
(* pc is the position of the single async control flow, every await is a   *)
(* step of its own, and the external collaborators (the three adapters,    *)
(* the progress sink updateScrapingJob, the spreadsheet generator) answer  *)
(* nondeterministically.                                                   *)
(* Two parts of the program are also run on their own: the run's log       *)
(* (addLog, SpecLog) and the metrics calculator (calculator.ts,            *)
(* calculateDerivedMetrics, SpecCalc).                                     *)
(***************************************************************************)
EXTENDS Integers, Sequences, FiniteSets, TLC

\* ------------------------------------------------------------------ bounds
MaxCompanies == 3
MaxLogLines == 60
YearSpan == 8
MaxRetriesArg == 4
MaxCount == 9

\* ------------------------------------------------------- program constants
LogCap == 50
RateLimitDelay == 2000

\* The company selections tried: the first k names of A, B, A, B, ... (so that
\* neighbours differ and a name can occur twice).
NameAt(i) == IF i % 2 = 1 THEN "A" ELSE "B"
SelectedLists == { [i \in 1..k |-> NameAt(i)] : k \in 0..MaxCompanies }
DefaultTestCompany == "TCS"
Undefined == "undefined"

VARIABLES
  testMode,            \* parameter testMode
  testCompany,         \* parameter testCompany ("" when not given)
  selectedCompanies,   \* parameter selectedCompanies (<<>> when not given)
  selection,           \* parameters selectedQuarters, selectedFiscalYears
  pc,                  \* position of the control flow
  idx,                 \* loop variable, 1-based
  companiesToProcess,
  companyDetails,
  allCompanyData,
  errors,
  completedCompanies,
  failedCompanies,
  logs,
  progressLogs,        \* progress.logs, the copy taken when progress is built
  quarterlyData,
  dataSource,
  thrown,              \* the error travelling to a catch block
  outputBuffer,        \* whether generateOutputExcel produced a buffer
  sink,                \* what the progress sink holds: the last snapshot written
  inflight,            \* adapter calls awaited and not yet settled
  clock,               \* milliseconds spent in delay()
  result,              \* the value the function returned
  calls,               \* history: adapter calls made, << company index, step, accepted >>
  sinkFailed,          \* history: indices of companies during which a sink write threw
  everCompleted,       \* history: indices of companies that were marked completed
  endedAt,             \* history: clock value when each company became completed or failed
  rawData,             \* calculator: the raw indicator map handed to calculateDerivedMetrics
  calculation,         \* calculator: what calculateDerivedMetrics returned
  header,              \* period mappers: the month and year of a column header
  periods,             \* period mappers: what each mapper made of it
  label,               \* normalizer: the row label given to normalizeIndicatorName
  normalized,          \* normalizer: its result, and the result of applying it again
  call,                \* retry loops: the function called and its arguments
  loop,                \* retry loops: position, attempt counter, waits, result
  content,             \* JSON repair: the text the completion service answered
  repair,              \* JSON repair: the payload extracted, stripped and repaired
  asked,               \* previous quarters: the quarter and the count asked for
  previous             \* previous quarters: what getPreviousQuarters returned

inputs == << testMode, testCompany, selectedCompanies, selection >>
outputs == << allCompanyData, errors, completedCompanies, failedCompanies >>
locals == << quarterlyData, dataSource, thrown, outputBuffer >>
history == << calls, sinkFailed, everCompleted, endedAt >>
calc == << rawData, calculation >>
\* the functions run on their own
lib == << header, periods, label, normalized, call, loop,
         content, repair, asked, previous >>
\* the state of the orchestrator's run
run == << pc, idx, companiesToProcess, companyDetails, outputs, logs,
         progressLogs, locals, sink, inflight, clock, result, history >>

vars == << inputs, run, calc, lib >>

\* ------------------------------------------------------------ data values
\* A quarter as an adapter returns it: its period label and its raw indicators.
Period(q, yy) == [kind |-> "fiscal", q |-> q, yy |-> yy]
OtherPeriod == [kind |-> "other"]

Quarter(p, sales, profit) ==
  [period |-> p, indicators |-> [k \in {"Sales", "Net Profit"} |->
                                   IF k = "Sales" THEN sales ELSE profit]]

\* What scrapeScreener can answer: its data sets, or a thrown error.
ScreenerResults ==
  { <<>>,
    << Quarter(Period(1, 26), "100", "10") >>,
    << Quarter(Period(1, 26), "--", "--") >>,
    << Quarter(Period(1, 26), "", "NA") >>,
    << Quarter(Period(4, 25), "--", "7"), Quarter(OtherPeriod, Undefined, Undefined) >> }

Selections ==
  { [quarters |-> {1}, years |-> {2026}],
    [quarters |-> {4}, years |-> {2025, 2026}] }

\* ------------------------------------------------------------- hasValidData
revenueKeys == {"Net Sales / Income from Operations", "Revenue", "Net Sales", "Sales", "Income"}
profitKeys == {"Net Profit / (Loss) for the Period", "Net Profit", "Profit", "PAT", "Net_Profit"}

Val(indicators, key) ==
  IF key \in DOMAIN indicators THEN indicators[key] ELSE Undefined

hasValidData(data) ==
  \E i \in 1..Len(data) :
    LET indicators == data[i].indicators
        hasRevenue == \E key \in revenueKeys :
                        Val(indicators, key) \notin {Undefined, "--", "null"}
        hasProfit == \E key \in profitKeys :
                        Val(indicators, key) \notin {Undefined, "--", "null"}
    IN hasRevenue \/ hasProfit

\* -------------------------------------------------------------------- addLog
addLogEvictsAtCap(l, message) ==
  LET pushed == Append(l, message)
  IN IF Len(pushed) >= LogCap THEN Tail(pushed) ELSE pushed

addLog(l, message) ==
  LET pushed == Append(l, message)
  IN IF Len(pushed) > LogCap THEN Tail(pushed) ELSE pushed

\* ------------------------------------------- calculator (calculator.ts)
\* A raw indicator value: a number, a string, or no value under the key.
Num(n) == [kind |-> "number", num |-> n, str |-> ""]
Str(t) == [kind |-> "string", num |-> 0, str |-> t]
NoValue == [kind |-> "undefined", num |-> 0, str |-> ""]

\* number | null, and an optional field of CalculatedMetrics
Null == [has |-> FALSE, num |-> 0]
Some(n) == [has |-> TRUE, num |-> n]

\* parseFloat(String(value).replace(/,/g, '')) and the NaN test (59-60), on
\* the strings of the model: "1,234" reads 1234, the others give NaN.
parseFloat(t) == IF t = "1,234" THEN Some(1234) ELSE Null

toNumberDashIsZero(value) ==
  IF value.kind = "undefined" \/ (value.kind = "string" /\ value.str \in {"NA", ""})
  THEN Null
  ELSE IF value.kind = "number" THEN Some(value.num)
  ELSE IF value.str = "--" THEN Some(0)
  ELSE parseFloat(value.str)

toNumber(value) ==
  IF value.kind = "undefined" \/ (value.kind = "string" /\ value.str \in {"--", "NA", ""})
  THEN Null
  ELSE IF value.kind = "number" THEN Some(value.num)
  ELSE parseFloat(value.str)

isAvailable(value) == value.has

\* a ?? b
Coalesce(a, b) == IF a.has THEN a ELSE b

ContributionNoDefaults(raw) ==
  LET totalIncome == toNumber(raw["Total Income From Operations"])
      purchaseTraded == toNumber(raw["Purchase of Traded Goods"])
      stockChange == toNumber(raw["Increase / Decrease in Stocks"])
  IN IF isAvailable(totalIncome) /\ isAvailable(purchaseTraded) /\ isAvailable(stockChange)
     THEN Some(totalIncome.num - purchaseTraded.num - stockChange.num)
     ELSE Null

\* calculated.Contribution (91-102)
Contribution(raw) ==
  LET totalIncome == toNumber(raw["Total Income From Operations"])
      purchaseTraded == toNumber(raw["Purchase of Traded Goods"])
      stockChange == toNumber(raw["Increase / Decrease in Stocks"])
      purchase == IF isAvailable(purchaseTraded) THEN purchaseTraded.num ELSE 0
      stock == IF isAvailable(stockChange) THEN stockChange.num ELSE 0
  IN IF isAvailable(totalIncome) THEN Some(totalIncome.num - purchase - stock) ELSE Null

OpEbitdaReportedFirst(raw) ==
  LET employeeCost == toNumber(raw["Employees Cost"])
      otherExpenses == toNumber(raw["Other Expenses"])
      rawOpEbitda == Coalesce(toNumber(raw["Op. EBITDA"]), toNumber(raw["Operating Profit"]))
  IN IF isAvailable(rawOpEbitda)
     THEN rawOpEbitda
     ELSE IF isAvailable(Contribution(raw)) /\ isAvailable(employeeCost)
             /\ isAvailable(otherExpenses)
          THEN Some(Contribution(raw).num - employeeCost.num - otherExpenses.num)
          ELSE Null

\* calculated['Op. EBITDA'] (104-122)
OpEbitda(raw) ==
  LET employeeCost == toNumber(raw["Employees Cost"])
      otherExpenses == toNumber(raw["Other Expenses"])
      rawOpEbitda == Coalesce(toNumber(raw["Op. EBITDA"]), toNumber(raw["Operating Profit"]))
  IN IF isAvailable(Contribution(raw)) /\ isAvailable(employeeCost)
        /\ isAvailable(otherExpenses)
     THEN Some(Contribution(raw).num - employeeCost.num - otherExpenses.num)
     ELSE IF isAvailable(rawOpEbitda) THEN rawOpEbitda ELSE Null

OpEbitAddsDepreciation(raw) ==
  LET depreciation == toNumber(raw["Depreciation"])
  IN IF isAvailable(OpEbitda(raw)) /\ isAvailable(depreciation)
     THEN Some(OpEbitda(raw).num + depreciation.num)
     ELSE Null

\* calculated['Op. EBIT'] (129-138)
OpEbit(raw) ==
  LET depreciation == toNumber(raw["Depreciation"])
  IN IF isAvailable(OpEbitda(raw)) /\ isAvailable(depreciation)
     THEN Some(OpEbitda(raw).num - depreciation.num)
     ELSE Null

\* calculated['Op. PBT'] (145-154)
OpPbt(raw) ==
  LET interest == toNumber(raw["Interest"])
  IN IF isAvailable(OpEbit(raw)) /\ isAvailable(interest)
     THEN Some(OpEbit(raw).num - interest.num)
     ELSE Null

\* calculated.PBT (156-171)
Pbt(raw) ==
  LET otherIncome == toNumber(raw["Other Income"])
      rawPBT == Coalesce(toNumber(raw["P/L Before Tax"]), toNumber(raw["Profit before tax"]))
  IN IF isAvailable(OpPbt(raw)) /\ isAvailable(otherIncome)
     THEN Some(OpPbt(raw).num + otherIncome.num)
     ELSE IF isAvailable(rawPBT) THEN rawPBT ELSE Null

revenueKeysTotalIncomeFirst ==
  << "Total Income From Operations", "Net Sales / Income from Operations", "Revenue",
     "Net Sales", "Sales", "Income" >>

\* revenueKeys of the calculator (174-181), in the order they are tried
calcRevenueKeys ==
  << "Net Sales / Income from Operations", "Revenue", "Net Sales", "Sales", "Income",
     "Total Income From Operations" >>

\* the loop over revenueKeys from its i-th key on (183-190)
RECURSIVE netSalesFrom(_, _)
netSalesFrom(raw, i) ==
  IF i > Len(calcRevenueKeys)
  THEN Null
  ELSE LET val == toNumber(raw[calcRevenueKeys[i]])
       IN IF isAvailable(val) THEN val ELSE netSalesFrom(raw, i + 1)

\* calculated.Revenue (192-196)
Revenue(raw) == netSalesFrom(raw, 1)

\* A percentage (metric / revenue) * 100, kept exact as the fraction num / den.
NoPercent == [has |-> FALSE, num |-> 0, den |-> 1]

PercentAnyRevenue(metric, revenue) ==
  IF revenue.has /\ metric.has
  THEN [has |-> TRUE, num |-> metric.num * 100, den |-> revenue.num]
  ELSE NoPercent

\* the guarded division of 125-126, 141-142, 202-203 and 212-213
Percent(metric, revenue) ==
  IF revenue.has /\ revenue.num # 0 /\ metric.has
  THEN [has |-> TRUE, num |-> metric.num * 100, den |-> revenue.num]
  ELSE NoPercent

\* calculated['Op. EBITDA%']: the attempt at 124-127 runs before
\* calculated.Revenue is set and finds it undefined; the one at 198-208 counts.
OpEbitdaPct(raw) ==
  LET early == Percent(OpEbitda(raw), Null)
      late == Percent(OpEbitda(raw), Revenue(raw))
  IN IF late.has THEN late ELSE early

\* calculated['Op. EBIT%'] (140-143, 210-218)
OpEbitPct(raw) ==
  LET early == Percent(OpEbit(raw), Null)
      late == Percent(OpEbit(raw), Revenue(raw))
  IN IF late.has THEN late ELSE early

Issue(metric, severity) == [metric |-> metric, severity |-> severity]
Abs(n) == IF n < 0 THEN -n ELSE n

\* the issues pushed, in the order of the code (97, 116, 133, 149, 165, 225)
issuesOf(raw) ==
  LET pbtRaw == toNumber(raw["P/L Before Tax"])
      when(c, issue) == IF c THEN << issue >> ELSE << >>
  IN when(~Contribution(raw).has, Issue("Contribution", "error"))
     \o when(~OpEbitda(raw).has, Issue("Op. EBITDA", "error"))
     \o when(~OpEbit(raw).has, Issue("Op. EBIT", "warning"))
     \o when(~OpPbt(raw).has, Issue("Op. PBT", "warning"))
     \o when(~Pbt(raw).has, Issue("PBT", "error"))
     \o when(Pbt(raw).has /\ isAvailable(pbtRaw) /\ Abs(Pbt(raw).num - pbtRaw.num) > 1,
             Issue("PBT", "warning"))

calculateDerivedMetrics(raw) ==
  [done |-> TRUE,
   calculated |-> [Revenue |-> Revenue(raw), Contribution |-> Contribution(raw),
                   OpEBITDA |-> OpEbitda(raw), OpEBITDAPct |-> OpEbitdaPct(raw),
                   OpEBIT |-> OpEbit(raw), OpEBITPct |-> OpEbitPct(raw),
                   OpPBT |-> OpPbt(raw), PBT |-> Pbt(raw)],
   issues |-> issuesOf(raw)]

NotCalculated == [done |-> FALSE]

\* ------------------------------------------------ calculator: raw inputs
OperandKeys ==
  {"Total Income From Operations", "Purchase of Traded Goods",
   "Increase / Decrease in Stocks", "Employees Cost", "Depreciation",
   "Other Expenses", "Other Income", "Interest"}
ReportedKeys == {"Op. EBITDA", "Operating Profit", "P/L Before Tax", "Profit before tax"}
NetSalesKeys == {"Net Sales / Income from Operations", "Revenue", "Net Sales", "Sales", "Income"}
RawKeys == OperandKeys \cup ReportedKeys \cup NetSalesKeys

\* A number for every key: the operands of calculator.test.ts, and values of
\* the reported and net-sales keys that differ from every derived value.
FullExample ==
  "Total Income From Operations" :> Num(22697) @@ "Purchase of Traded Goods" :> Num(105)
  @@ "Increase / Decrease in Stocks" :> Num(-17) @@ "Employees Cost" :> Num(13616)
  @@ "Depreciation" :> Num(691) @@ "Other Expenses" :> Num(4620)
  @@ "Other Income" :> Num(947) @@ "Interest" :> Num(50)
  @@ "Op. EBITDA" :> Num(4400) @@ "Operating Profit" :> Num(4500)
  @@ "P/L Before Tax" :> Num(4600) @@ "Profit before tax" :> Num(4700)
  @@ "Net Sales / Income from Operations" :> Num(22000) @@ "Revenue" :> Num(21000)
  @@ "Net Sales" :> Num(20000) @@ "Sales" :> Num(19000) @@ "Income" :> Num(18000)

\* the rawData of the tests of calculator.test.ts: the eight operands only
TestRawData == [k \in RawKeys |-> IF k \in OperandKeys THEN FullExample[k] ELSE NoValue]
NoRawData == [k \in RawKeys |-> NoValue]

\* the values a cell can hold: nothing, the placeholders, unparseable text,
\* a number written with a comma, and numbers
CellValues ==
  {NoValue, Str("--"), Str("NA"), Str(""), Str("-"), Str("1,234"), Num(0), Num(-17),
   Num(22697)}

Override(base, f) == [k \in RawKeys |-> IF k \in DOMAIN f THEN f[k] ELSE base[k]]

Shaped(shape) ==
  [k \in DOMAIN shape |->
     CASE shape[k] = "num" -> FullExample[k]
       [] shape[k] = "dash" -> Str("--")
       [] shape[k] = "zero" -> Num(0)
       [] OTHER -> NoValue]

\* the three operands of Contribution over every cell value
ContributionInputs ==
  { Override(TestRawData, f) :
      f \in [{"Total Income From Operations", "Purchase of Traded Goods",
              "Increase / Decrease in Stocks"} -> CellValues] }

\* the operands of the chain present, '--' or missing, with and without the
\* reported values
ChainInputs ==
  { Override(TestRawData, Shaped(f) @@ Shaped(g)) :
      f \in [OperandKeys \ {"Purchase of Traded Goods", "Increase / Decrease in Stocks"}
               -> {"num", "dash", "none"}],
      g \in [ReportedKeys -> {"num", "none"}] }

\* every operand present, with other numbers
OtherNumbers ==
  { [k \in RawKeys |-> IF k \in A THEN Num(-5) ELSE TestRawData[k]] : A \in SUBSET OperandKeys }

\* one cell of the full example changed
SingleCellInputs ==
  { [FullExample EXCEPT ![k] = v] : k \in RawKeys, v \in CellValues }

\* the revenue keys present, zero, '--' or missing, with and without the
\* operands Op. EBITDA and Op. EBIT need
RevenueInputs ==
  { Override(TestRawData, Shaped(f) @@ Shaped(g)) :
      f \in [NetSalesKeys \cup {"Total Income From Operations"}
               -> {"num", "zero", "dash", "none"}],
      g \in [{"Employees Cost", "Depreciation"} -> {"num", "none"}] }

RawInputs ==
  ContributionInputs \cup ChainInputs \cup OtherNumbers \cup SingleCellInputs
    \cup RevenueInputs

\* ------------------------------------------------------- period mappers
\* A column header names a month and a year: "Sep '25" on MoneyControl,
\* "Sep 2025" on Screener, (9, 2025) for the shared mapper.
MonthNames ==
  << "Jan", "Feb", "Mar", "Apr", "May", "Jun", "Jul", "Aug", "Sep", "Oct", "Nov", "Dec" >>
Years == 2024..(2024 + YearSpan)
\* what the variable of a result holds before the function is called
NotCalled == [done |-> FALSE]

\* toLowerCase on the month names
toLowerCase(name) ==
  CASE name = "Jan" -> "jan" [] name = "Feb" -> "feb" [] name = "Mar" -> "mar"
    [] name = "Apr" -> "apr" [] name = "May" -> "may" [] name = "Jun" -> "jun"
    [] name = "Jul" -> "jul" [] name = "Aug" -> "aug" [] name = "Sep" -> "sep"
    [] name = "Oct" -> "oct" [] name = "Nov" -> "nov" [] name = "Dec" -> "dec"
    [] OTHER -> name

\* monthMap of parseQuarterHeader (15-29)
moneyControlMonthMap(month) ==
  CASE month \in {"jan", "feb"} -> [quarter |-> 3, fyOffset |-> 0]
    [] month = "mar" -> [quarter |-> 4, fyOffset |-> 0]
    [] month \in {"apr", "may", "jun", "june"} -> [quarter |-> 1, fyOffset |-> 1]
    [] month \in {"jul", "aug", "sep"} -> [quarter |-> 2, fyOffset |-> 1]
    [] month \in {"oct", "nov", "dec"} -> [quarter |-> 3, fyOffset |-> 1]
    [] OTHER -> [quarter |-> 0, fyOffset |-> 0]

\* parseQuarterHeader on the header name 'yy (31-47)
parseQuarterHeader(name, yy) ==
  LET month == toLowerCase(name)
      year == 2000 + yy
      monthInfo == moneyControlMonthMap(month)
  IN IF monthInfo.quarter # 0
     THEN Period(monthInfo.quarter, (year + monthInfo.fyOffset) % 100)
     ELSE OtherPeriod

\* monthMap of convertToFiscalQuarter (309-322)
screenerMonthMap(month) ==
  CASE month \in {"Jan", "Feb", "Mar"} -> [quarter |-> 4, fyOffset |-> 0]
    [] month \in {"Apr", "May", "Jun"} -> [quarter |-> 1, fyOffset |-> 1]
    [] month \in {"Jul", "Aug", "Sep"} -> [quarter |-> 2, fyOffset |-> 1]
    [] month \in {"Oct", "Nov", "Dec"} -> [quarter |-> 3, fyOffset |-> 1]
    [] OTHER -> [quarter |-> 0, fyOffset |-> 0]

\* convertToFiscalQuarter on the header name yyyy (300-331)
convertToFiscalQuarter(name, year) ==
  LET mapping == screenerMonthMap(name)
  IN IF mapping.quarter # 0
     THEN Period(mapping.quarter, (year + mapping.fyOffset) % 100)
     ELSE OtherPeriod

\* getIndianFiscalQuarter: its quarterNumber and fiscalYear (28-69)
getIndianFiscalQuarter(month, year) ==
  IF month >= 4 /\ month <= 6 THEN [quarterNumber |-> 1, fiscalYear |-> year + 1]
  ELSE IF month >= 7 /\ month <= 9 THEN [quarterNumber |-> 2, fiscalYear |-> year + 1]
  ELSE IF month >= 10 /\ month <= 12 THEN [quarterNumber |-> 3, fiscalYear |-> year + 1]
  ELSE [quarterNumber |-> 4, fiscalYear |-> year]

\* ------------------------------------------------------ previous quarters
DigitChars == << "0", "1", "2", "3", "4", "5", "6", "7", "8", "9" >>
IsDigit(ch) == \E d \in 1..10 : DigitChars[d] = ch

\* a number in a template literal (177): its decimal digits
RECURSIVE digitsOf(_)
digitsOf(n) ==
  IF n < 0 THEN << "-" >> \o digitsOf(0 - n)
  ELSE IF n < 10 THEN << DigitChars[n + 1] >>
  ELSE digitsOf(n \div 10) \o << DigitChars[(n % 10) + 1] >>

\* parseInt of a run of digits (93, 94)
RECURSIVE parseInt(_)
parseInt(digits) ==
  IF Len(digits) = 0 THEN 0
  ELSE 10 * parseInt(SubSeq(digits, 1, Len(digits) - 1)) 
         + (CHOOSE d \in 0..9 : DigitChars[d + 1] = digits[Len(digits)])

\* `Q${currentQ} FY${currentFY}` (177)
quarterString(currentQ, currentFY) ==
  << "Q" >> \o digitsOf(currentQ) \o << " ", "F", "Y" >> \o digitsOf(currentFY)

NullQuarter == [quarterNumber |-> 0, fiscalYear |-> 0, startMonth |-> 0,
                endMonth |-> 0, startYear |-> 0, endYear |-> 0]

\* the first position from i on that holds none of the given characters
RECURSIVE skip(_, _, _)
skip(str, i, chars) ==
  IF i <= Len(str) /\ str[i] \in chars THEN skip(str, i + 1, chars) ELSE i

\* how many digits stand at position i and after it, up to most
RECURSIVE digitRun(_, _, _)
digitRun(str, i, most) ==
  IF most > 0 /\ i <= Len(str) /\ IsDigit(str[i]) THEN 1 + digitRun(str, i + 1, most - 1)
  ELSE 0

\* the match of /Q(\d)['\s]*FY['\s]*(\d{2,4})/i (91) that begins at position i
quarterMatchAt(str, i) ==
  LET f == skip(str, i + 2, {"'", " "})
      y == skip(str, f + 2, {"'", " "})
      n == digitRun(str, y, 4)
  IN IF /\ i + 1 <= Len(str)
        /\ str[i] \in {"Q", "q"}
        /\ IsDigit(str[i + 1])
        /\ f + 1 <= Len(str)
        /\ str[f] \in {"F", "f"}
        /\ str[f + 1] \in {"Y", "y"}
        /\ n >= 2
     THEN [found |-> TRUE, quarter |-> << str[i + 1] >>, year |-> SubSeq(str, y, y + n - 1)]
     ELSE [found |-> FALSE, quarter |-> << >>, year |-> << >>]

\* parseQuarterString (89-151), without the texts quarter and period
parseQuarterString(str) ==
  LET starts == {i \in 1..Len(str) : quarterMatchAt(str, i).found}
  IN IF starts = {} THEN NullQuarter
     ELSE LET match == quarterMatchAt(str, CHOOSE i \in starts : \A j \in starts : i <= j)
              quarterNumber == parseInt(match.quarter)
              parsedYear == parseInt(match.year)
              fiscalYear == IF parsedYear < 100 THEN parsedYear + 2000 ELSE parsedYear
          IN IF quarterNumber < 1 \/ quarterNumber > 4 THEN NullQuarter
             ELSE [quarterNumber |-> quarterNumber,
                   fiscalYear |-> fiscalYear,
                   startMonth |-> CASE quarterNumber = 1 -> 4 [] quarterNumber = 2 -> 7
                                    [] quarterNumber = 3 -> 10 [] OTHER -> 1,
                   endMonth |-> CASE quarterNumber = 1 -> 6 [] quarterNumber = 2 -> 9
                                  [] quarterNumber = 3 -> 12 [] OTHER -> 3,
                   startYear |-> IF quarterNumber = 4 THEN fiscalYear ELSE fiscalYear - 1,
                   endYear |-> IF quarterNumber = 4 THEN fiscalYear ELSE fiscalYear - 1]

previousOfSameYear(currentQ, currentFY) ==
  IF currentQ - 1 < 1 THEN [q |-> 4, fy |-> currentFY]
  ELSE [q |-> currentQ - 1, fy |-> currentFY]

\* the move to the previous quarter (171-175)
previousOf(currentQ, currentFY) ==
  IF currentQ - 1 < 1 THEN [q |-> 4, fy |-> currentFY - 1]
  ELSE [q |-> currentQ - 1, fy |-> currentFY]

\* the loop of getPreviousQuarters (169-182) from round i on
RECURSIVE previousFrom(_, _, _)
previousFrom(currentQ, currentFY, rounds) ==
  IF rounds = 0 THEN << >>
  ELSE LET p == previousOf(currentQ, currentFY)
           quarterInfo == parseQuarterString(quarterString(p.q, p.fy))
       IN (IF quarterInfo # NullQuarter THEN << quarterInfo >> ELSE << >>)
            \o previousFrom(p.q, p.fy, rounds - 1)

\* getPreviousQuarters (164-185)
getPreviousQuarters(from, count) ==
  previousFrom(from.quarterNumber, from.fiscalYear, count)

\* the quarters asked from: what parseQuarterString makes of "Qn FYyyyy"

\* ------------------------------------------------------------ retry loops
\* scrapeMoneyControl: const maxRetries = 3 (part_009 133)
ScrapeMaxRetries == 3

\* what one pass through the try block of scrapeMoneyControl can come to:
\* the request (or anything else in the block) throws, or the page is loaded
\* and has no financial table (183-186), no quarter headers (218-221), no
\* meaningful data (303-308), or data (314)
PageFailures == {"noTable", "noHeaders", "noData"}

\* what one pass through the try block of searchScreenerCompanyWithRetry can
\* come to: the first request throws, answers with a match, or answers empty;
\* after an empty answer a query whose normalized form differs is asked again
SearchOutcomes == {"error", "match", "empty", "errorSecond", "matchSecond", "emptySecond"}

\* the errors a request can throw
Errors == {"ETIMEDOUT", "ECONNRESET"}

RECURSIVE Pow2(_)
Pow2(n) == IF n = 0 THEN 1 ELSE 2 * Pow2(n - 1)

backoffDelayFromOneSecond(fn, attempt) == Pow2(attempt - 1) * 1000

\* the delay computed in the catch block: Math.pow(2, attempt) * 1000 in
\* scrapeMoneyControl (325), Math.pow(2, attempt - 1) * 1000 in
\* searchScreenerCompanyWithRetry (256)
backoffDelay(fn, attempt) ==
  IF fn = "scrapeMoneyControl" THEN Pow2(attempt) * 1000
  ELSE Pow2(attempt - 1) * 1000

afterPageRetriesNoData(outcome) ==
  IF outcome \in {"noTable", "noHeaders"} THEN [pc |-> "returned", result |-> "[]"]
  ELSE IF outcome = "data" THEN [pc |-> "returned", result |-> "quarters"]
  ELSE [pc |-> "caught", result |-> "none"]

\* where the try block of scrapeMoneyControl leaves the loop
afterPage(outcome) ==
  IF outcome \in PageFailures THEN [pc |-> "returned", result |-> "[]"]
  ELSE IF outcome = "data" THEN [pc |-> "returned", result |-> "quarters"]
  ELSE [pc |-> "caught", result |-> "none"]

\* where the try block of searchScreenerCompanyWithRetry leaves the loop
afterSearch(outcome) ==
  IF outcome \in {"match", "matchSecond"} THEN [pc |-> "returned", result |-> "match"]
  ELSE IF outcome \in {"empty", "emptySecond"} THEN [pc |-> "returned", result |-> "null"]
  ELSE [pc |-> "caught", result |-> "none"]

NoLoop == [pc |-> "none", attempt |-> 0, tried |-> << >>, waits |-> << >>,
           fetches |-> 0, lastError |-> "none", result |-> "none", thrown |-> "none"]

\* ------------------------------------------------------- JSON repair
\* Texts are sequences of characters; a code fence (three backticks) is the
\* element "fence", and the word json after it is one element.
Whitespace == {" ", "\n"}

\* the answer in the format the prompt asks for (376-388), in one line
CompactDocument ==
  << "{", "\"", "q", "u", "a", "r", "t", "e", "r", "s", "\"", ":", "[", "{",
     "\"", "q", "u", "a", "r", "t", "e", "r", "\"", ":", "\"", "Q", "2", "'",
     "2", "6", "\"", ",", "\"", "d", "a", "t", "a", "\"", ":", "{", "\"",
     "R", "e", "v", "e", "n", "u", "e", "\"", ":", "6", "5", "7", "9", "9",
     "}", "}", ",", "{", "\"", "q", "u", "a", "r", "t", "e", "r", "\"", ":",
     "\"", "Q", "1", "'", "2", "6", "\"", ",", "\"", "d", "a", "t", "a",
     "\"", ":", "{", "\"", "R", "e", "v", "e", "n", "u", "e", "\"", ":", "6",
     "2", "0", "0", "0", "}", "}", "]", "}" >>

\* the same answer laid out over lines
LaidOutDocument ==
  << "{", "\n", " ", "\"", "q", "u", "a", "r", "t", "e", "r", "s", "\"", ":",
     " ", "[", "\n", " ", " ", "{", " ", "\"", "q", "u", "a", "r", "t", "e",
     "r", "\"", ":", " ", "\"", "Q", "2", "'", "2", "6", "\"", ",", " ",
     "\"", "d", "a", "t", "a", "\"", ":", " ", "{", " ", "\"", "R", "e", "v",
     "e", "n", "u", "e", "\"", ":", " ", "6", "5", "7", "9", "9", " ", "}",
     " ", "}", ",", "\n", " ", " ", "{", " ", "\"", "q", "u", "a", "r", "t",
     "e", "r", "\"", ":", " ", "\"", "Q", "1", "'", "2", "6", "\"", ",", " ",
     "\"", "d", "a", "t", "a", "\"", ":", " ", "{", " ", "\"", "R", "e", "v",
     "e", "n", "u", "e", "\"", ":", " ", "6", "2", "0", "0", "0", " ", "}",
     " ", "}", "\n", " ", "]", "\n", "}" >>

\* an answer whose quarters are pairs of a label and an object
PairsDocument ==
  << "{", "\"", "q", "u", "a", "r", "t", "e", "r", "s", "\"", ":", "[", "[",
     "\"", "Q", "2", "'", "2", "6", "\"", ",", "{", "\"", "R", "e", "v", "e",
     "n", "u", "e", "\"", ":", "6", "5", "7", "9", "9", ",", "\"", "N", "e",
     "t", " ", "P", "r", "o", "f", "i", "t", "\"", ":", "1", "2", "0", "7",
     "5", "}", "]", ",", "[", "\"", "Q", "1", "'", "2", "6", "\"", ",", "{",
     "\"", "R", "e", "v", "e", "n", "u", "e", "\"", ":", "6", "2", "0", "0",
     "0", ",", "\"", "N", "e", "t", " ", "P", "r", "o", "f", "i", "t", "\"",
     ":", "1", "1", "5", "0", "0", "}", "]", "]", "}" >>

Documents == {CompactDocument, LaidOutDocument, PairsDocument}

\* the laid-out answer inside a code fence
FencedAnswer == << "fence", "json", "\n" >> \o LaidOutDocument \o << "\n", "fence" >>

Positions(text, chars) == {i \in 1..Len(text) : text[i] \in chars}
Count(text, ch) == Cardinality(Positions(text, {ch}))
Min(S) == CHOOSE x \in S : \A y \in S : x <= y
Max(S) == CHOOSE x \in S : \A y \in S : x >= y
AllIn(text, from, to, chars) == \A i \in from..to : text[i] \in chars

\* content.match(/FENCE(?:json)?\s*([\s\S]*?)\s*FENCE/) (408): the text between
\* the first fence and the next one, without the white space around it;
\* << >> when there are no two fences
fenceMatch(answer) ==
  LET fences == Positions(answer, {"fence"})
  IN IF Cardinality(fences) < 2 THEN [found |-> FALSE, text |-> << >>]
     ELSE LET open == Min(fences)
              close == Min(fences \ {open})
              afterWord == IF open + 1 < close /\ answer[open + 1] = "json"
                           THEN open + 2 ELSE open + 1
              inner == {i \in afterWord..(close - 1) : answer[i] \notin Whitespace}
          IN [found |-> TRUE,
              text |-> IF inner = {} THEN << >>
                       ELSE SubSeq(answer, Min(inner), Max(inner))]

\* content.match(/\{[\s\S]*\}/) (413): from the first { to the last }
objectMatch(answer) ==
  LET opens == Positions(answer, {"{"})
      closes == Positions(answer, {"}"})
  IN IF opens = {} \/ closes = {} \/ Max(closes) < Min(opens)
     THEN [found |-> FALSE, text |-> << >>]
     ELSE [found |-> TRUE, text |-> SubSeq(answer, Min(opens), Max(closes))]

\* the payload extracted from the content (406-417)
extractJson(answer) ==
  IF fenceMatch(answer).found THEN fenceMatch(answer).text
  ELSE IF objectMatch(answer).found THEN objectMatch(answer).text
  ELSE answer

\* JSON.parse(repairedJson) returns (423). Every payload extracted from a
\* content of the model begins as a document does and ends inside it or at
\* its end, and JSON.parse accepts such a text only when it is the whole
\* document.
jsonParses(text) == text \in Documents

\* text.replace(re, '') for the three patterns of 435-437, each anchored at
\* the end of the text: the text is cut at the leftmost comma from which the
\* pattern matches up to the end
cutAt(text, starts) == IF starts = {} THEN text ELSE SubSeq(text, 1, Min(starts) - 1)

\* /,\s*$/
trailingComma(text) ==
  {i \in Positions(text, {","}) : AllIn(text, i + 1, Len(text), Whitespace)}

\* /,\s*"[^"]*"?\s*$/
incompleteKey(text) ==
  {i \in Positions(text, {","}) :
     \E q \in (i + 1)..Len(text) :
       /\ text[q] = "\""
       /\ AllIn(text, i + 1, q - 1, Whitespace)
       /\ LET later == {r \in (q + 1)..Len(text) : text[r] = "\""}
          IN \/ later = {}
             \/ \E r \in later : later = {r} /\ AllIn(text, r + 1, Len(text), Whitespace)}

\* /,\s*\{[^}]*$/
incompleteObject(text) ==
  {i \in Positions(text, {","}) :
     \E q \in (i + 1)..Len(text) :
       /\ text[q] = "{"
       /\ AllIn(text, i + 1, q - 1, Whitespace)
       /\ \A r \in (q + 1)..Len(text) : text[r] # "}"}

\* the three replacements in the order of the code (435-437)
stripIncomplete(text) ==
  LET noComma == cutAt(text, trailingComma(text))
      noKey == cutAt(noComma, incompleteKey(noComma))
  IN cutAt(noKey, incompleteObject(noKey))

\* the closers appended (440-445); the brackets are counted in the text as
\* it is before the replacements (429-432)
closers(text) ==
  [i \in 1..(Count(text, "[") - Count(text, "]")) |-> "]"]
    \o [i \in 1..(Count(text, "{") - Count(text, "}")) |-> "}"]

\* -------------------------------------------------- indicator normalizer
\* mapping of normalizeIndicatorName (54-120)
indicatorMapping ==
  "net sales/income from operations" :> "Net Sales / Income from Operations"
  @@ "net sales / income from operations" :> "Net Sales / Income from Operations"
  @@ "revenue from operations" :> "Net Sales / Income from Operations"
  @@ "total income from operations" :> "Total Income From Operations"
  @@ "other operating income" :> "Other Operating Income"
  @@ "employees cost" :> "Employees Cost"
  @@ "employee benefit expenses" :> "Employees Cost"
  @@ "depreciation" :> "Depreciation"
  @@ "depreciation and amortisation expenses" :> "Depreciation"
  @@ "other expenses" :> "Other Expenses"
  @@ "other income" :> "Other Income"
  @@ "interest" :> "Interest"
  @@ "finance costs" :> "Interest"
  @@ "p/l before other inc., int., excpt. items & tax" :> "P/L Before Other Inc., Int., Excpt. Items & Tax"
  @@ "p/l before int., excpt. items & tax" :> "P/L Before Int., Excpt. Items & Tax"
  @@ "p/l before exceptional items & tax" :> "P/L Before Exceptional Items & Tax"
  @@ "exceptional items" :> "Exceptional Items"
  @@ "p/l before tax" :> "P/L Before Tax"
  @@ "profit before tax" :> "P/L Before Tax"
  @@ "tax" :> "Tax"
  @@ "tax expenses" :> "Tax"
  @@ "p/l after tax from ordinary activities" :> "P/L After Tax from Ordinary Activities"
  @@ "profit after tax" :> "P/L After Tax from Ordinary Activities"
  @@ "net profit/(loss) for the period" :> "Net Profit / (Loss) for the Period"
  @@ "net profit / (loss) for the period" :> "Net Profit / (Loss) for the Period"
  @@ "net profit" :> "Net Profit / (Loss) for the Period"
  @@ "minority interest" :> "Minority Interest"
  @@ "net p/l after m.i & associates" :> "Net P/L After MI & Associates"
  @@ "basic eps" :> "Basic EPS"
  @@ "diluted eps" :> "Diluted EPS"
  @@ "purchase of traded goods" :> "Purchase of Traded Goods"
  @@ "increase/decrease in stocks" :> "Increase / Decrease in Stocks"
  @@ "consumption of raw materials" :> "Consumption of Raw Materials"
  @@ "power & fuel" :> "Power & Fuel"
  @@ "excise duty" :> "Excise Duty"
  @@ "admin. and selling expenses" :> "Admin. And Selling Expenses"
  @@ "r & d expenses" :> "R & D Expenses"
  @@ "provisions and contingencies" :> "Provisions And Contingencies"
  @@ "exp. capitalised" :> "Exp. Capitalised"
  @@ "net interest income" :> "Net Interest Income"
  @@ "interest income" :> "Interest Income"
  @@ "interest earned" :> "Interest Income"
  @@ "interest expended" :> "Interest Expended"
  @@ "interest expense" :> "Interest Expended"
  @@ "fee income" :> "Fee Income"
  @@ "total income" :> "Total Income"
  @@ "operating expenses" :> "Operating Expenses"
  @@ "employee expenses" :> "Employees Cost"
  @@ "provisions" :> "Provisions"
  @@ "provisions for bad debts" :> "Provisions"
  @@ "provision for npa" :> "Provisions"
  @@ "operating profit" :> "Operating Profit"
  @@ "profit before provisions" :> "Profit Before Provisions"
  @@ "net profit after tax" :> "Net Profit / (Loss) for the Period"
  @@ "total assets" :> "Total Assets"
  @@ "total deposits" :> "Total Deposits"
  @@ "total advances" :> "Total Advances"
  @@ "gross npa" :> "Gross NPA"
  @@ "net npa" :> "Net NPA"
  @@ "casa ratio" :> "CASA Ratio"
  @@ "net interest margin" :> "Net Interest Margin"
  @@ "nim" :> "Net Interest Margin"

\* name.toLowerCase().trim() (122) on the labels of the model that are not
\* already lower-case and trimmed
loweredLabels ==
  "Admin. And Selling Expenses" :> "admin. and selling expenses"
  @@ "Basic EPS" :> "basic eps"
  @@ "CASA Ratio" :> "casa ratio"
  @@ "Consumption of Raw Materials" :> "consumption of raw materials"
  @@ "Depreciation" :> "depreciation"
  @@ "Diluted EPS" :> "diluted eps"
  @@ "Employees Cost" :> "employees cost"
  @@ "Exceptional Items" :> "exceptional items"
  @@ "Excise Duty" :> "excise duty"
  @@ "Exp. Capitalised" :> "exp. capitalised"
  @@ "Fee Income" :> "fee income"
  @@ "Gross NPA" :> "gross npa"
  @@ "Increase / Decrease in Stocks" :> "increase / decrease in stocks"
  @@ "Interest" :> "interest"
  @@ "Interest Expended" :> "interest expended"
  @@ "Interest Income" :> "interest income"
  @@ "Minority Interest" :> "minority interest"
  @@ "Net Interest Income" :> "net interest income"
  @@ "Net Interest Margin" :> "net interest margin"
  @@ "Net NPA" :> "net npa"
  @@ "Net P/L After MI & Associates" :> "net p/l after mi & associates"
  @@ "Net Profit / (Loss) for the Period" :> "net profit / (loss) for the period"
  @@ "Net Sales / Income from Operations" :> "net sales / income from operations"
  @@ "Operating Expenses" :> "operating expenses"
  @@ "Operating Profit" :> "operating profit"
  @@ "Other Expenses" :> "other expenses"
  @@ "Other Income" :> "other income"
  @@ "Other Operating Income" :> "other operating income"
  @@ "P/L After Tax from Ordinary Activities" :> "p/l after tax from ordinary activities"
  @@ "P/L Before Exceptional Items & Tax" :> "p/l before exceptional items & tax"
  @@ "P/L Before Int., Excpt. Items & Tax" :> "p/l before int., excpt. items & tax"
  @@ "P/L Before Other Inc., Int., Excpt. Items & Tax" :> "p/l before other inc., int., excpt. items & tax"
  @@ "P/L Before Tax" :> "p/l before tax"
  @@ "Power & Fuel" :> "power & fuel"
  @@ "Profit Before Provisions" :> "profit before provisions"
  @@ "Provisions" :> "provisions"
  @@ "Provisions And Contingencies" :> "provisions and contingencies"
  @@ "Purchase of Traded Goods" :> "purchase of traded goods"
  @@ "R & D Expenses" :> "r & d expenses"
  @@ "Tax" :> "tax"
  @@ "Total Advances" :> "total advances"
  @@ "Total Assets" :> "total assets"
  @@ "Total Deposits" :> "total deposits"
  @@ "Total Income" :> "total income"
  @@ "Total Income From Operations" :> "total income from operations"
  @@ " TAX " :> "tax"
  @@ "Finance Costs" :> "finance costs"
  @@ "Constructor" :> "constructor"

lowerTrimmed(name) ==
  IF name \in DOMAIN loweredLabels THEN loweredLabels[name] ELSE name

\* The names the lower-cased label can hit besides the keys of the literal:
\* mapping is a plain object, so mapping[lowerName] also finds what it
\* inherits from Object.prototype, and those values are no strings.
inheritedProperties == {"constructor", "__proto__"}

Text(t) == [kind |-> "string", text |-> t]
NotAString == [kind |-> "object", text |-> ""]
TypeError == [kind |-> "throws", text |-> ""]

\* mapping[lowerName]; Text("") stands for undefined, both being falsy
lookup(lowerName) ==
  IF lowerName \in DOMAIN indicatorMapping
  THEN Text(indicatorMapping[lowerName])
  ELSE IF lowerName \in inheritedProperties THEN NotAString ELSE Text("")

\* normalizeIndicatorName (53-124): mapping[lowerName] || name
normalizeIndicatorName(name) ==
  LET lowerName == lowerTrimmed(name)
      found == lookup(lowerName)
  IN IF found # Text("") THEN found ELSE Text(name)

\* ------------------------------------------------------------------- helpers
Company == companiesToProcess[idx]
totalCompanies == Len(companiesToProcess)

SetDetail(fields) ==
  [companyDetails EXCEPT ![idx] =
     [f \in DOMAIN @ |-> IF f \in DOMAIN fields THEN fields[f] ELSE @[f]]]

Snapshot(step, withLogs) ==
  [currentStep |-> step, companyDetails |-> companyDetails, logs |-> withLogs,
   completedCompanies |-> completedCompanies, failedCompanies |-> failedCompanies]

NoSnapshot ==
  [currentStep |-> "none", companyDetails |-> <<>>, logs |-> <<>>,
   completedCompanies |-> <<>>, failedCompanies |-> <<>>]

NoResult == [returned |-> FALSE]

\* ---------------------------------------------------------------------- Init
\* the state of a run before its first statement
RunInit ==
  /\ pc = "entry"
  /\ idx = 1
  /\ companiesToProcess = <<>>
  /\ companyDetails = <<>>
  /\ allCompanyData = <<>>
  /\ errors = <<>>
  /\ completedCompanies = <<>>
  /\ failedCompanies = <<>>
  /\ logs = <<>>
  /\ progressLogs = <<>>
  /\ quarterlyData = <<>>
  /\ dataSource = "screener"
  /\ thrown = "none"
  /\ outputBuffer = FALSE
  /\ sink = NoSnapshot
  /\ inflight = {}
  /\ clock = 0
  /\ result = NoResult
  /\ calls = <<>>
  /\ sinkFailed = {}
  /\ everCompleted = {}
  /\ endedAt = <<>>

\* no run of the orchestrator is under way and none is asked for
Quiet ==
  /\ testMode = FALSE
  /\ testCompany = ""
  /\ selectedCompanies = << >>
  /\ selection = [quarters |-> {1}, years |-> {2026}]
  /\ RunInit

\* the variables of the functions that are not called hold no call
LibIdleBut(own) ==
  /\ own # "calc" => rawData = NoRawData /\ calculation = NotCalculated
  /\ own # "period" => header = [month |-> 0, year |-> 0] /\ periods = NotCalled
  /\ own # "normalizer" => label = "" /\ normalized = NotCalled
  /\ own # "retry" => call = [fn |-> "none", maxRetries |-> 0, renamed |-> FALSE] /\ loop = NoLoop
  /\ own # "repair" => content = << >> /\ repair = NotCalled
  /\ own # "previous" => asked = [quarter |-> NullQuarter, count |-> 0] /\ previous = NotCalled

Init ==
  /\ testMode \in BOOLEAN
  /\ testCompany \in (IF testMode THEN {"", "A"} ELSE {""})  \* read in test mode only (69)
  /\ selectedCompanies \in SelectedLists
  /\ selection \in Selections
  /\ RunInit
  /\ LibIdleBut("none")

\* ------------------------------------------------- company list (67-113)
BuildCompanyWithUrl(name) == [name |-> name, url |-> "", moneyControlUrl |-> "configured"]
\* a company record as the run builds it (72, 75, 83)
BuildCompany(name) == [name |-> name, url |-> "", moneyControlUrl |-> ""]

CompaniesForSelectionFirst(mode, tc, sel) ==
  IF mode /\ Len(sel) = 0
  THEN IF tc # "" THEN << BuildCompany(tc) >> ELSE << BuildCompany(DefaultTestCompany) >>
  ELSE [i \in 1..Len(sel) |-> BuildCompany(sel[i])]

CompaniesFor(mode, tc, sel) ==
  IF mode
  THEN IF tc # "" THEN << BuildCompany(tc) >> ELSE << BuildCompany(DefaultTestCompany) >>
  ELSE [i \in 1..Len(sel) |-> BuildCompany(sel[i])]

InitialDetail(c) ==
  [company |-> c.name, status |-> "pending", stage |-> "Waiting to start",
   dataSource |-> Undefined, fallbackStep |-> 1, progress |-> 0,
   switchedSource |-> FALSE, liveData |-> <<>>]

DetermineCompanies ==
  /\ pc = "entry"
  /\ IF ~testMode /\ Len(selectedCompanies) = 0
     THEN /\ result' = [returned |-> TRUE, success |-> FALSE, hasBuffer |-> FALSE,
                        errors |-> << [company |-> "System", error |-> "No companies selected"] >>,
                        extractedData |-> <<>>]
          /\ pc' = "returned"
          /\ UNCHANGED << companiesToProcess, companyDetails, endedAt >>
     ELSE /\ companiesToProcess' = CompaniesFor(testMode, testCompany, selectedCompanies)
          /\ companyDetails' = [i \in 1..Len(companiesToProcess') |->
                                  InitialDetail(companiesToProcess'[i])]
          /\ endedAt' = [i \in 1..Len(companiesToProcess') |-> -1]
          /\ pc' = "loop"
          /\ UNCHANGED result
  /\ UNCHANGED << inputs, calc, lib, idx, outputs, logs, progressLogs, locals, sink, inflight,
                  clock, calls, sinkFailed, everCompleted >>

\* ------------------------------------------- start of one company (115-147)
StartCompany ==
  /\ pc = "loop"
  /\ idx <= totalCompanies
  /\ companyDetails' = SetDetail([status |-> "processing",
                                  stage |-> "Initializing scraper", progress |-> 0])
  /\ logs' = addLog(logs, << "Starting process", idx >>)
  /\ progressLogs' = logs'
  /\ quarterlyData' = <<>>
  /\ dataSource' = "screener"
  /\ pc' = "w_start"
  /\ UNCHANGED << inputs, calc, lib, idx, companiesToProcess, outputs, thrown, outputBuffer,
                  sink, inflight, clock, result, history >>

\* --------------------------------------------- the progress sink (db.ts)
\* Each await updateScrapingJob(...) of the function: where it stands, where the
\* control flow goes when it resolves, and whether it stands inside the try
\* block of the company loop (119-334).
SinkWrites ==
  { [at |-> "w_start", next |-> "s1_begin", inTry |-> TRUE],    \* 149
    [at |-> "w_s1",    next |-> "s1_call",  inTry |-> TRUE],    \* 169
    [at |-> "w_s2",    next |-> "s2_call",  inTry |-> TRUE],    \* 207
    [at |-> "w_s3",    next |-> "s3_call",  inTry |-> TRUE],    \* 229
    [at |-> "w_allfail", next |-> "continue", inTry |-> TRUE],  \* 260
    [at |-> "w_post",  next |-> "calc",     inTry |-> TRUE],    \* 270
    [at |-> "w_calc",  next |-> "finish",   inTry |-> TRUE],    \* 275
    [at |-> "w_done",  next |-> "rate",     inTry |-> TRUE],    \* 325
    [at |-> "w_fail",  next |-> "log_fail", inTry |-> FALSE],   \* 347
    [at |-> "w_final", next |-> "excel",    inTry |-> FALSE] }  \* 377

\* The progressData the write at pc carries. The write after completion (325)
\* spreads progress without overriding logs, so it carries progress.logs.
SnapshotAt(at) ==
  CASE at = "w_start" -> Snapshot("Processing", progressLogs)
    [] at = "w_done"  -> Snapshot("Processing", progressLogs)
    [] at = "w_fail"  -> Snapshot("Failed", logs)
    [] at = "w_final" -> Snapshot(IF Len(completedCompanies) > 0
                                  THEN "Processing complete"
                                  ELSE "All companies failed", logs)
    [] OTHER          -> Snapshot("Processing", logs)

\* Where an error thrown at a statement goes: to the catch block of the company
\* loop when the statement stands inside its try block, out of the function
\* otherwise.
ThrowTargetNoCatch(inTry) == "threw"

ThrowTarget(inTry) == IF inTry THEN "catch" ELSE "threw"

updateScrapingJobResolves ==
  \E w \in SinkWrites :
    /\ pc = w.at
    /\ sink' = SnapshotAt(w.at)
    /\ pc' = w.next
    /\ UNCHANGED << inputs, calc, lib, idx, companiesToProcess, companyDetails, outputs, logs,
                    progressLogs, locals, inflight, clock, result, history >>

updateScrapingJobRejects ==
  \E w \in SinkWrites :
    /\ pc = w.at
    /\ thrown' = "sink write failed"
    /\ pc' = ThrowTarget(w.inTry)
    /\ sinkFailed' = sinkFailed \cup {IF w.at = "w_final" THEN 0 ELSE idx}
    /\ UNCHANGED << inputs, calc, lib, idx, companiesToProcess, companyDetails, outputs, logs,
                    progressLogs, quarterlyData, dataSource, outputBuffer, sink,
                    inflight, clock, result, calls, everCompleted, endedAt >>

\* ------------------------------------------------ step 1: Screener (163-199)
Step1Begin ==
  /\ pc = "s1_begin"
  /\ companyDetails' = SetDetail([stage |-> "Step 1: Extracting data from Screener.in",
                                  dataSource |-> "screener", fallbackStep |-> 1,
                                  progress |-> 10])
  /\ logs' = addLog(logs, << "[Step 1] Attempting", idx >>)
  /\ pc' = "w_s1"
  /\ UNCHANGED << inputs, calc, lib, idx, companiesToProcess, outputs, progressLogs, locals,
                  sink, inflight, clock, result, history >>

\* await scrapeScreener(company.name): the call is made
CallScreener ==
  /\ pc = "s1_call"
  /\ inflight' = inflight \cup {<< idx, 1 >>}
  /\ pc' = "s1_wait"
  /\ UNCHANGED << inputs, calc, lib, idx, companiesToProcess, companyDetails, outputs, logs,
                  progressLogs, locals, sink, clock, result, history >>

\* The quarters of a Screener result as QuarterlyData (174-180).
MapScreenerQuarters(quarters) ==
  [i \in 1..Len(quarters) |->
     [quarter |-> quarters[i].period, period |-> quarters[i].period,
      indicators |-> quarters[i].indicators]]

AcceptedIfRequested(data) ==
  /\ Len(data) # 0
  /\ hasValidData(data)
  /\ \E i \in 1..Len(data) :
       /\ data[i].period.kind = "fiscal"
       /\ data[i].period.q \in selection.quarters
       /\ (2000 + data[i].period.yy) \in selection.years
\* The acceptance test of a step (183, 212, 239).
Accepted(data) == Len(data) # 0 /\ hasValidData(data)

\* scrapeScreener settles: it throws, or it resolves and its data is mapped and
\* tested (174-185).
ScreenerSettles ==
  /\ pc = "s1_wait"
  /\ inflight' = inflight \ {<< idx, 1 >>}
  /\ \/ /\ thrown' = "scrapeScreener threw"
        /\ pc' = "s1_catch"
        /\ calls' = Append(calls, << idx, 1, FALSE >>)
        /\ UNCHANGED quarterlyData
     \/ \E r \in ScreenerResults :
          /\ quarterlyData' = IF Len(r) > 0 THEN MapScreenerQuarters(r) ELSE quarterlyData
          /\ calls' = Append(calls, << idx, 1, Accepted(quarterlyData') >>)
          /\ IF Accepted(quarterlyData')
             THEN pc' = "s1_ok" /\ UNCHANGED thrown
             ELSE pc' = "s1_catch" /\ thrown' = "No valid data extracted from Screener.in"
  /\ UNCHANGED << inputs, calc, lib, idx, companiesToProcess, companyDetails, outputs, logs,
                  progressLogs, dataSource, outputBuffer, sink, clock, result,
                  sinkFailed, everCompleted, endedAt >>

Step1Success ==
  /\ pc = "s1_ok"
  /\ dataSource' = "screener"
  /\ companyDetails' = SetDetail([progress |-> 50])
  /\ logs' = addLog(logs, << "[Step 1] SUCCESS", idx >>)
  /\ pc' = "post"
  /\ UNCHANGED << inputs, calc, lib, idx, companiesToProcess, outputs, progressLogs,
                  quarterlyData, thrown, outputBuffer, sink, inflight, clock, result,
                  history >>

HasMoneyControlUrlAlways(c) == TRUE
\* The catch block of step 1 up to the configuration test (191-199).
HasMoneyControlUrl(c) == c.moneyControlUrl # ""

Step1Catch ==
  /\ pc = "s1_catch"
  /\ ~HasMoneyControlUrl(Company)
  /\ logs' = addLog(addLog(logs, << "[Step 1] Screener.in failed", idx >>),
                    << "[Step 2] Skipping MoneyControl", idx >>)
  /\ thrown' = "No data sources available"
  /\ pc' = ThrowTarget(TRUE)
  /\ UNCHANGED << inputs, calc, lib, idx, companiesToProcess, companyDetails, outputs,
                  progressLogs, quarterlyData, dataSource, outputBuffer, sink,
                  inflight, clock, result, history >>

\* ------------------------------------ steps 2 and 3 of the chain (200-262)
\* The rest of the catch block of step 1, entered when the company record
\* carries a MoneyControl URL.
Step2Begin ==
  /\ pc = "s1_catch"
  /\ HasMoneyControlUrl(Company)
  /\ companyDetails' = SetDetail([stage |-> "Step 2: Trying MoneyControl scraping",
                                  dataSource |-> "moneycontrol", fallbackStep |-> 2,
                                  switchedSource |-> TRUE, progress |-> 25])
  /\ logs' = addLog(addLog(logs, << "[Step 1] Screener.in failed", idx >>),
                    << "[Step 2] Falling back", idx >>)
  /\ pc' = "w_s2"
  /\ UNCHANGED << inputs, calc, lib, idx, companiesToProcess, outputs, progressLogs, locals,
                  sink, inflight, clock, result, history >>

\* an awaited adapter call of step 2 or 3 is made (210, 232)
CallFallbackAdapter ==
  /\ pc \in {"s2_call", "s3_call"}
  /\ inflight' = inflight \cup {<< idx, IF pc = "s2_call" THEN 2 ELSE 3 >>}
  /\ pc' = IF pc = "s2_call" THEN "s2_wait" ELSE "s3_url_wait"
  /\ UNCHANGED << inputs, calc, lib, idx, companiesToProcess, companyDetails, outputs, logs,
                  progressLogs, locals, sink, clock, result, history >>

\* scrapeMoneyControl settles, in step 2 (210-214) or in step 3 (236-241)
MoneyControlSettles ==
  /\ pc \in {"s2_wait", "s3_scrape_wait"}
  /\ LET step == IF pc = "s2_wait" THEN 2 ELSE 3
         onFail == IF pc = "s2_wait" THEN "s2_catch" ELSE "s3_catch"
         onPass == IF pc = "s2_wait" THEN "s2_ok" ELSE "s3_ok"
     IN /\ inflight' = inflight \ {<< idx, step >>}
        /\ \/ /\ thrown' = "scrapeMoneyControl threw"
              /\ pc' = onFail
              /\ calls' = Append(calls, << idx, step, FALSE >>)
              /\ UNCHANGED quarterlyData
           \/ \E r \in ScreenerResults :
                /\ quarterlyData' = MapScreenerQuarters(r)
                /\ calls' = Append(calls, << idx, step, Accepted(quarterlyData') >>)
                /\ IF Accepted(quarterlyData')
                   THEN pc' = onPass /\ UNCHANGED thrown
                   ELSE pc' = onFail /\ thrown' = "No valid data"
  /\ UNCHANGED << inputs, calc, lib, idx, companiesToProcess, companyDetails, outputs, logs,
                  progressLogs, dataSource, outputBuffer, sink, clock, result,
                  sinkFailed, everCompleted, endedAt >>

\* the success branch of step 2 (216-218) or step 3 (243-245)
FallbackSuccess ==
  /\ pc \in {"s2_ok", "s3_ok"}
  /\ dataSource' = IF pc = "s2_ok" THEN "moneycontrol" ELSE "perplexity-url"
  /\ companyDetails' = SetDetail([progress |-> 50])
  /\ logs' = addLog(logs, << "SUCCESS", idx >>)
  /\ pc' = "post"
  /\ UNCHANGED << inputs, calc, lib, idx, companiesToProcess, outputs, progressLogs,
                  quarterlyData, thrown, outputBuffer, sink, inflight, clock, result,
                  history >>

\* the catch block of step 2 up to its sink write (220-228)
Step3Begin ==
  /\ pc = "s2_catch"
  /\ companyDetails' = SetDetail([stage |-> "Step 3: Getting URL from Perplexity AI",
                                  dataSource |-> "perplexity-url", fallbackStep |-> 3,
                                  progress |-> 40])
  /\ logs' = addLog(addLog(logs, << "[Step 2] MoneyControl scraping failed", idx >>),
                    << "[Step 3] Asking Perplexity", idx >>)
  /\ pc' = "w_s3"
  /\ UNCHANGED << inputs, calc, lib, idx, companiesToProcess, outputs, progressLogs, locals,
                  sink, inflight, clock, result, history >>

\* getMoneyControlUrlFromPerplexity settles (232-241): it throws, it finds no
\* URL (the data at hand is tested), or it finds one and scrapeMoneyControl
\* is awaited with it
PerplexityUrlSettles ==
  /\ pc = "s3_url_wait"
  /\ \/ /\ thrown' = "getMoneyControlUrlFromPerplexity threw"
        /\ pc' = "s3_catch"
        /\ inflight' = inflight \ {<< idx, 3 >>}
        /\ calls' = Append(calls, << idx, 3, FALSE >>)
        /\ UNCHANGED logs
     \/ /\ inflight' = inflight \ {<< idx, 3 >>}
        /\ calls' = Append(calls, << idx, 3, Accepted(quarterlyData) >>)
        /\ IF Accepted(quarterlyData)
           THEN pc' = "s3_ok" /\ UNCHANGED thrown
           ELSE pc' = "s3_catch" /\ thrown' = "No valid data from Perplexity-provided URL"
        /\ UNCHANGED logs
     \/ /\ logs' = addLog(logs, << "[Step 3] Perplexity found URL", idx >>)
        /\ pc' = "s3_scrape_wait"
        /\ UNCHANGED << inflight, calls, thrown >>
  /\ UNCHANGED << inputs, calc, lib, idx, companiesToProcess, companyDetails, outputs,
                  progressLogs, quarterlyData, dataSource, outputBuffer, sink, clock,
                  result, sinkFailed, everCompleted, endedAt >>

\* the catch block of step 3 up to its sink write (247-259)
Step3Catch ==
  /\ pc = "s3_catch"
  /\ logs' = addLog(logs, << "[Step 3] Perplexity Finance also failed", idx >>)
  /\ companyDetails' = SetDetail([status |-> "failed",
                                  stage |-> "All 3 fallback steps failed",
                                  progress |-> 0])
  /\ failedCompanies' = Append(failedCompanies, Company.name)
  /\ errors' = Append(errors, [company |-> Company.name,
                               error |-> "All fallback steps failed"])
  /\ endedAt' = [endedAt EXCEPT ![idx] = clock]
  /\ pc' = "w_allfail"
  /\ UNCHANGED << inputs, calc, lib, idx, companiesToProcess, allCompanyData, completedCompanies,
                  progressLogs, locals, sink, inflight, clock, result, calls,
                  sinkFailed, everCompleted >>

\* continue (261): the loop goes to its next round, past the rate limiting
Continue ==
  /\ pc = "continue"
  /\ idx' = idx + 1
  /\ pc' = "loop"
  /\ UNCHANGED << inputs, calc, lib, companiesToProcess, companyDetails, outputs, logs,
                  progressLogs, locals, sink, inflight, clock, result, history >>

\* -------------------------------------------- after extraction (266-275)
PostExtract ==
  /\ pc = "post"
  /\ companyDetails' = SetDetail([liveData |-> quarterlyData,
                                  stage |-> "Processing extracted data",
                                  progress |-> 60])
  /\ pc' = "w_post"
  /\ UNCHANGED << inputs, calc, lib, idx, companiesToProcess, outputs, logs, progressLogs,
                  locals, sink, inflight, clock, result, history >>

CalcStage ==
  /\ pc = "calc"
  /\ companyDetails' = SetDetail([stage |-> "Calculating derived metrics",
                                  progress |-> 75])
  /\ pc' = "w_calc"
  /\ UNCHANGED << inputs, calc, lib, idx, companiesToProcess, outputs, logs, progressLogs,
                  locals, sink, inflight, clock, result, history >>

\* ------------------------------------- result of one company (277-323)
IsSelectedEither(period) ==
  IF period.kind # "fiscal"
  THEN TRUE
  ELSE period.q \in selection.quarters \/ (2000 + period.yy) \in selection.years

\* The quarter filter (291-308): a period that is no fiscal label is kept.
IsSelected(period) ==
  IF period.kind # "fiscal"
  THEN TRUE
  ELSE period.q \in selection.quarters /\ (2000 + period.yy) \in selection.years

\* calculatedMetrics is a function of rawData alone and is not carried here.
ProcessedQuarters(data) ==
  SelectSeq([i \in 1..Len(data) |->
               [quarter |-> data[i].quarter, period |-> data[i].period,
                rawData |-> data[i].indicators]],
            LAMBDA q : IsSelected(q.period))

FinishCompany ==
  /\ pc = "finish"
  /\ allCompanyData' = Append(allCompanyData,
                              [companyName |-> Company.name, dataSource |-> dataSource,
                               quarters |-> ProcessedQuarters(quarterlyData)])
  /\ companyDetails' = SetDetail([status |-> "completed", stage |-> "Completed",
                                  progress |-> 100])
  /\ completedCompanies' = Append(completedCompanies, Company.name)
  /\ logs' = addLog(logs, << "[Complete]", idx >>)
  /\ everCompleted' = everCompleted \cup {idx}
  /\ endedAt' = [endedAt EXCEPT ![idx] = clock]
  /\ pc' = "w_done"
  /\ UNCHANGED << inputs, calc, lib, idx, companiesToProcess, errors, failedCompanies,
                  progressLogs, locals, sink, inflight, clock, result, calls,
                  sinkFailed >>

\* ----------------------------- catch block of the company loop (334-362)
FailedFieldsNoStatus == [stage |-> "Error", progress |-> 0]

\* The fields the catch block sets on the company's detail (336-338).
FailedFields == [status |-> "failed", stage |-> "Error", progress |-> 0]

OuterCatch ==
  /\ pc = "catch"
  /\ companyDetails' = SetDetail(FailedFields)
  /\ failedCompanies' = Append(failedCompanies, Company.name)
  /\ errors' = Append(errors, [company |-> Company.name, error |-> thrown])
  /\ endedAt' = [endedAt EXCEPT ![idx] = clock]
  /\ pc' = "w_fail"
  /\ UNCHANGED << inputs, calc, lib, idx, companiesToProcess, allCompanyData, completedCompanies,
                  logs, progressLogs, locals, sink, inflight, clock, result, calls,
                  sinkFailed, everCompleted >>

LogFailure ==
  /\ pc = "log_fail"
  /\ logs' = addLog(logs, << "[Error]", idx >>)
  /\ pc' = "rate"
  /\ UNCHANGED << inputs, calc, lib, idx, companiesToProcess, companyDetails, outputs,
                  progressLogs, locals, sink, inflight, clock, result, history >>

\* --------------------------------------------- rate limiting (364-370)
NeedsDelayOffByOne(i, n) == i < n - 1

\* idx < companiesToProcess.length - 1, with the 1-based loop variable (366)
NeedsDelay(i, n) == i < n

RateLimit ==
  /\ pc = "rate"
  /\ IF NeedsDelay(idx, totalCompanies)
     THEN /\ logs' = addLog(logs, << "[Rate Limit] Waiting", RateLimitDelay >>)
          /\ pc' = "delaying"
          /\ UNCHANGED idx
     ELSE /\ idx' = idx + 1
          /\ pc' = "loop"
          /\ UNCHANGED logs
  /\ UNCHANGED << inputs, calc, lib, companiesToProcess, companyDetails, outputs, progressLogs,
                  locals, sink, inflight, clock, result, history >>

\* await delay(rateLimitDelay) resolves; the loop goes to its next round
DelayElapsed ==
  /\ pc = "delaying"
  /\ clock' = clock + RateLimitDelay
  /\ idx' = idx + 1
  /\ pc' = "loop"
  /\ UNCHANGED << inputs, calc, lib, companiesToProcess, companyDetails, outputs, logs,
                  progressLogs, locals, sink, inflight, result, history >>

\* --------------------------------------------- end of the run (373-411)
FinishRun ==
  /\ pc = "loop"
  /\ idx > totalCompanies
  /\ logs' = addLog(logs, << "[Complete] Processed", Len(completedCompanies) >>)
  /\ pc' = "w_final"
  /\ UNCHANGED << inputs, calc, lib, idx, companiesToProcess, companyDetails, outputs,
                  progressLogs, locals, sink, inflight, clock, result, history >>

GenerateExcel ==
  /\ pc = "excel"
  /\ IF Len(allCompanyData) > 0
     THEN \/ outputBuffer' = TRUE /\ UNCHANGED errors
          \/ /\ errors' = Append(errors, [company |-> "Excel Generation",
                                          error |-> "generateOutputExcel threw"])
             /\ UNCHANGED outputBuffer
     ELSE UNCHANGED << outputBuffer, errors >>
  /\ pc' = "return"
  /\ UNCHANGED << inputs, calc, lib, idx, companiesToProcess, companyDetails, allCompanyData,
                  completedCompanies, failedCompanies, logs, progressLogs,
                  quarterlyData, dataSource, thrown, sink, inflight, clock, result,
                  history >>

SuccessAllCompleted(completed) == Len(completed) = totalCompanies

\* success: completedCompanies.length > 0 (406)
Success(completed) == Len(completed) > 0

Return ==
  /\ pc = "return"
  /\ result' = [returned |-> TRUE, success |-> Success(completedCompanies),
                hasBuffer |-> outputBuffer, errors |-> errors,
                extractedData |-> allCompanyData]
  /\ pc' = "returned"
  /\ UNCHANGED << inputs, calc, lib, idx, companiesToProcess, companyDetails, outputs, logs,
                  progressLogs, locals, sink, inflight, clock, history >>

\* ---------------------------------------------------------- specification
Next ==
  \/ DetermineCompanies
  \/ StartCompany
  \/ updateScrapingJobResolves
  \/ updateScrapingJobRejects
  \/ Step1Begin
  \/ CallScreener
  \/ ScreenerSettles
  \/ Step1Success
  \/ Step1Catch
  \/ PostExtract
  \/ CalcStage
  \/ FinishCompany
  \/ OuterCatch
  \/ LogFailure
  \/ RateLimit
  \/ DelayElapsed
  \/ FinishRun
  \/ GenerateExcel
  \/ Return

Spec == Init /\ [][Next]_vars

\* Steps 2 and 3 are entered only from the catch block of step 1 of a company
\* whose record carries a MoneyControl URL. BuildCompany gives every record an
\* empty one, so no behaviour of Spec enables these actions (FallbackUnreached
\* is an invariant of SpecWithFallback); they are kept apart from Next.
FallbackNext ==
  \/ Step2Begin
  \/ CallFallbackAdapter
  \/ MoneyControlSettles
  \/ FallbackSuccess
  \/ Step3Begin
  \/ PerplexityUrlSettles
  \/ Step3Catch
  \/ Continue

SpecWithFallback == Init /\ [][Next \/ FallbackNext]_vars

FallbackUnreached ==
  /\ pc \notin {"w_s2", "s2_call", "s2_wait", "s2_ok", "s2_catch", "w_s3", "s3_call",
                "s3_url_wait", "s3_scrape_wait", "s3_ok", "s3_catch", "w_allfail",
                "continue"}
  /\ ~ENABLED FallbackNext

\* The event loop runs every continuation that is ready, and every awaited
\* collaborator settles (each adapter and the sink resolves or rejects).
FairSpec == Spec /\ WF_vars(Next)

\* ------------------------------------------------- the log of a long run
\* addLog as the run calls it line after line (a run over the 13 supported
\* companies logs more than LogCap lines); the k-th line is << "line", k >>.
NextLine == IF Len(logs) = 0 THEN 1 ELSE logs[Len(logs)][2] + 1

AddLogLine ==
  /\ NextLine <= MaxLogLines
  /\ logs' = addLog(logs, << "line", NextLine >>)
  /\ UNCHANGED << inputs, calc, lib, pc, idx, companiesToProcess, companyDetails, outputs,
                  progressLogs, locals, sink, inflight, clock, result, history >>

SpecLog == Init /\ [][AddLogLine]_vars

\* ------------------------------------------- the calculator on its own
\* calculateDerivedMetrics is called with one raw indicator map and returns.
InitCalc ==
  /\ Quiet
  /\ rawData \in RawInputs
  /\ calculation = NotCalculated
  /\ LibIdleBut("calc")

Calculate ==
  /\ ~calculation.done
  /\ calculation' = calculateDerivedMetrics(rawData)
  /\ UNCHANGED << inputs, rawData, run, lib >>

SpecCalc == InitCalc /\ [][Calculate]_vars

\* ------------------------------------------ the period mappers on their own
InitPeriod ==
  /\ Quiet
  /\ header \in {[month |-> m, year |-> y] : m \in 1..12, y \in Years}
  /\ periods = NotCalled
  /\ LibIdleBut("period")

\* each mapper is given the header in the form its page shows it
MapHeader ==
  /\ ~periods.done
  /\ periods' = [done |-> TRUE,
                 moneycontrol |-> parseQuarterHeader(MonthNames[header.month],
                                                     header.year % 100),
                 screener |-> convertToFiscalQuarter(MonthNames[header.month],
                                                     header.year),
                 shared |-> getIndianFiscalQuarter(header.month, header.year)]
  /\ UNCHANGED << inputs, run, calc, header, label, normalized, call, loop,
                  content, repair, asked, previous >>

SpecPeriod == InitPeriod /\ [][MapHeader]_vars

\* ----------------------------------------------- the normalizer on its own
\* the labels tried: the keys of the table, its canonical names, labels in
\* other case or padded, labels the table does not know
InitNormalizer ==
  /\ Quiet
  /\ label \in DOMAIN indicatorMapping \cup DOMAIN loweredLabels
                \cup {"Some Other Row", "constructor", "ebitda margin"}
  /\ normalized = NotCalled
  /\ LibIdleBut("normalizer")

\* the label is normalized, and the result is normalized again; a result
\* that is no string has no toLowerCase (122)
Normalize ==
  /\ ~normalized.done
  /\ normalized' = [done |-> TRUE, once |-> normalizeIndicatorName(label),
                    twice |-> IF normalizeIndicatorName(label).kind = "string"
                              THEN normalizeIndicatorName(normalizeIndicatorName(label).text)
                              ELSE TypeError]
  /\ UNCHANGED << inputs, run, calc, header, periods, label, call, loop,
                  content, repair, asked, previous >>

SpecNormalizer == InitNormalizer /\ [][Normalize]_vars

\* ------------------------------------------------ the retry loops on their own
\* the calls tried: scrapeMoneyControl, and searchScreenerCompanyWithRetry
\* with maxRetries up to MaxRetriesArg (3 by default) and a query that its
\* normalization changes or leaves alone
InitRetry ==
  /\ Quiet
  /\ call \in {[fn |-> "scrapeMoneyControl", maxRetries |-> ScrapeMaxRetries,
                 renamed |-> FALSE]}
         \cup {[fn |-> "searchScreenerCompanyWithRetry", maxRetries |-> m, renamed |-> r] :
                 m \in 1..MaxRetriesArg, r \in BOOLEAN}
  /\ loop = [NoLoop EXCEPT !.pc = "try", !.attempt = 1]
  /\ LibIdleBut("retry")

\* one pass through the try block of scrapeMoneyControl (136-315) and, when
\* it throws, the assignment of the catch block (318)
ScrapeAttempt ==
  /\ call.fn = "scrapeMoneyControl"
  /\ loop.pc = "try"
  /\ \E outcome \in {"error", "data"} \cup PageFailures, e \in Errors :
       /\ outcome # "error" => e = "ETIMEDOUT"
       /\ loop' = [loop EXCEPT
            !.tried = Append(@, outcome),
            !.fetches = @ + 1,
            !.pc = afterPage(outcome).pc,
            !.result = afterPage(outcome).result,
            !.lastError = IF outcome = "error" THEN e ELSE @]
  /\ UNCHANGED << inputs, run, calc, header, periods, label, normalized, call,
                  content, repair, asked, previous >>

\* one pass through the try block of searchScreenerCompanyWithRetry
\* (companyValidator.ts 210-250) and, when it throws, the assignment of the
\* catch block (252)
SearchAttempt ==
  /\ call.fn = "searchScreenerCompanyWithRetry"
  /\ loop.pc = "try"
  /\ \E outcome \in SearchOutcomes, e \in Errors :
       /\ outcome \in {"errorSecond", "matchSecond", "emptySecond"} => call.renamed
       /\ outcome = "empty" => ~call.renamed
       /\ outcome \notin {"error", "errorSecond"} => e = "ETIMEDOUT"
       /\ loop' = [loop EXCEPT
            !.tried = Append(@, outcome),
            !.fetches = @ + (IF outcome \in {"errorSecond", "matchSecond", "emptySecond"} THEN 2 ELSE 1),
            !.pc = afterSearch(outcome).pc,
            !.result = afterSearch(outcome).result,
            !.lastError = IF outcome \in {"error", "errorSecond"} THEN e ELSE @]
  /\ UNCHANGED << inputs, run, calc, header, periods, label, normalized, call,
                  content, repair, asked, previous >>

\* catch block, attempt < maxRetries: wait, then the next attempt
Backoff ==
  /\ loop.pc = "caught"
  /\ loop.attempt < call.maxRetries
  /\ loop' = [loop EXCEPT
       !.waits = Append(@, backoffDelay(call.fn, loop.attempt)),
       !.attempt = @ + 1,
       !.pc = "try"]
  /\ UNCHANGED << inputs, run, calc, header, periods, label, normalized, call,
                  content, repair, asked, previous >>

\* catch block of the last attempt: the loop ends; scrapeMoneyControl throws
\* lastError (333), searchScreenerCompanyWithRetry returns null (263)
Surface ==
  /\ loop.pc = "caught"
  /\ ~(loop.attempt < call.maxRetries)
  /\ loop' = [loop EXCEPT
       !.attempt = @ + 1,
       !.pc = IF call.fn = "scrapeMoneyControl" THEN "thrown" ELSE "returned",
       !.result = IF call.fn = "scrapeMoneyControl" THEN "none" ELSE "null",
       !.thrown = IF call.fn = "scrapeMoneyControl" THEN loop.lastError ELSE "none"]
  /\ UNCHANGED << inputs, run, calc, header, periods, label, normalized, call,
                  content, repair, asked, previous >>

RetryNext == ScrapeAttempt \/ SearchAttempt \/ Backoff \/ Surface

SpecRetry == InitRetry /\ [][RetryNext]_vars

\* ------------------------------------------------ the JSON repair on its own
\* The contents tried: an answer cut off by the response-length limit
\* (max_tokens, 398) after any of its characters, and the whole answer.
InitRepair ==
  /\ Quiet
  /\ content \in UNION {{SubSeq(a, 1, n) : n \in 1..Len(a)} :
                          a \in Documents \cup {FencedAnswer}}
  /\ repair = NotCalled
  /\ LibIdleBut("repair")

\* extractFinancialDataWithPerplexity from the answer to the second
\* JSON.parse (400-451)
ParseAnswer ==
  /\ ~repair.done
  /\ LET jsonString == extractJson(content)
     IN repair' = [done |-> TRUE,
                   jsonString |-> jsonString,
                   parsed |-> jsonParses(jsonString),
                   stripped |-> IF jsonParses(jsonString) THEN jsonString
                                ELSE stripIncomplete(jsonString),
                   repairedJson |-> IF jsonParses(jsonString) THEN jsonString
                                    ELSE stripIncomplete(jsonString) \o closers(jsonString)]
  /\ UNCHANGED << inputs, run, calc, header, periods, label, normalized, call, loop,
                  content, asked, previous >>

SpecRepair == InitRepair /\ [][ParseAnswer]_vars

\* ------------------------------------------ getPreviousQuarters on its own
InitPrevious ==
  /\ Quiet
  /\ asked \in [quarter : {parseQuarterString(quarterString(q, fy)) :
                                 q \in 1..4, fy \in Years},
                    count : 0..MaxCount]
  /\ previous = NotCalled
  /\ LibIdleBut("previous")

AskPrevious ==
  /\ ~previous.done
  /\ previous' = [done |-> TRUE,
                  quarters |-> getPreviousQuarters(asked.quarter, asked.count)]
  /\ UNCHANGED << inputs, run, calc, header, periods, label, normalized, call, loop,
                  content, repair, asked >>

SpecPrevious == InitPrevious /\ [][AskPrevious]_vars

\* ====================================================================
\* Properties
\* ====================================================================
Indices == 1..Len(companyDetails)
Status(i) == companyDetails[i].status
Terminal(i) == Status(i) \in {"completed", "failed"}
CallsOf(i) == SelectSeq(calls, LAMBDA c : c[1] = i)
SourceOfStep(step) ==
  CASE step = 1 -> "screener" [] step = 2 -> "moneycontrol" [] OTHER -> "perplexity-url"
CountIn(seq, name, field) ==
  Cardinality({k \in 1..Len(seq) : seq[k][field] = name})
NamesOf(seq, field) == [k \in 1..Len(seq) |-> seq[k][field]]
\* the names of the companies of a given final status, in processing order
NamesWithStatus(st) ==
  NamesOf(SelectSeq(companyDetails, LAMBDA d : d.status = st), "company")
Returned == pc = "returned" /\ Len(companiesToProcess) > 0
\* company i went through without any write to the progress sink rejecting
SinkHeld(i) == i \notin sinkFailed

\* C1: for each company the sources are tried in the order step 1, step 2,
\* step 3; the first step whose data passes the has-meaningful-data predicate
\* ends the company as completed with that step's source and no later adapter
\* call; a company is given up only after the last step has been tried.
C1_FallbackOrder ==
  \A i \in Indices :
    LET cs == CallsOf(i)
    IN /\ \A k \in 1..Len(cs) :
            /\ (k = 1 => cs[k][2] = 1)
            /\ (k > 1 => cs[k][2] > cs[k-1][2])
            /\ (cs[k][3] => k = Len(cs))
       /\ (Terminal(i) /\ SinkHeld(i) /\ Len(cs) > 0 /\ cs[Len(cs)][3])
            => /\ Status(i) = "completed"
               /\ companyDetails[i].dataSource = SourceOfStep(cs[Len(cs)][2])
       /\ (Status(i) = "failed" /\ SinkHeld(i))
            => (Len(cs) > 0 /\ cs[Len(cs)][2] = 3)

\* C2: a company without a MoneyControl URL whose step 1 failed is marked
\* failed only after the step-3 adapter has been attempted for it.
C2_SkipsToStep3 ==
  \A i \in Indices :
    ( /\ ~HasMoneyControlUrl(companiesToProcess[i])
      /\ Status(i) = "failed"
      /\ SinkHeld(i)
      /\ \E k \in 1..Len(calls) : calls[k] = << i, 1, FALSE >> )
    => \E k \in 1..Len(calls) : calls[k][1] = i /\ calls[k][2] = 3

\* C3: whatever the adapters return or throw, the run ends; it ends by
\* throwing only when a write to the progress sink rejected, never because of
\* an adapter; and when it returns every company is completed or failed.
C3_RunTerminates ==
  /\ <>(pc \in {"returned", "threw"})
  /\ [](pc = "threw" => thrown = "sink write failed")
  /\ [](Returned => /\ result.returned
                    /\ \A i \in Indices : Terminal(i))

C3_Witness ==
  /\ Returned
  /\ \E i, j \in Indices :
       /\ i < j
       /\ Status(i) = "failed" /\ SinkHeld(i)
       /\ \E k \in 1..Len(calls) : calls[k] = << i, 1, FALSE >>
       /\ Status(j) = "completed"

\* C4: when the run returns, extractedData holds exactly one CompanyResult
\* for each completed company, in processing order, and errors holds exactly
\* one entry for each failed company and none for a completed one.
C4_ResultsMatchStatuses ==
  Returned =>
    /\ NamesOf(result.extractedData, "companyName") = NamesWithStatus("completed")
    /\ \A n \in {companyDetails[i].company : i \in Indices} :
         CountIn(result.errors, n, "company")
           = Cardinality({i \in Indices : companyDetails[i].company = n
                                           /\ Status(i) = "failed"})

\* C5: a CompanyResult exists only for a company with accepted adapter data;
\* a failed company has no CompanyResult and has an error entry.
C5_ResultOnlyForAcceptedData ==
  \A n \in {companyDetails[i].company : i \in Indices} :
    LET named(st) == {i \in Indices : companyDetails[i].company = n /\ Status(i) = st}
    IN /\ CountIn(allCompanyData, n, "companyName")
            <= Cardinality({i \in Indices : companyDetails[i].company = n
                               /\ \E k \in 1..Len(calls) : calls[k][1] = i /\ calls[k][3]})
       /\ CountIn(allCompanyData, n, "companyName")
            <= Cardinality({i \in Indices : companyDetails[i].company = n
                               /\ Status(i) # "failed"})
       /\ CountIn(errors, n, "company") >= Cardinality(named("failed"))

\* C6: the returned success flag is true exactly when at least one company
\* reached completed; the early return without companies gives false.
C6_SuccessIffCompleted ==
  result.returned => (result.success <=> everCompleted # {})

C6_Witness ==
  /\ result.returned
  /\ result.success
  /\ \E i \in Indices : Status(i) = "failed" /\ i \notin everCompleted

\* C7: at most one company is processing; the companies before it are
\* completed or failed, those after it pending; at most one adapter call is
\* in flight, and it belongs to the processing company.
C7_StrictlySequential ==
  /\ Cardinality({i \in Indices : Status(i) = "processing"}) <= 1
  /\ \A i, j \in Indices :
       i < j => /\ Status(i) = "processing" => Status(j) = "pending"
                /\ Status(j) # "pending" => Terminal(i)
  /\ Cardinality(inflight) <= 1
  /\ \A c \in inflight : Status(c[1]) = "processing"

C7_Witness ==
  /\ inflight = {<< 2, 1 >>}
  /\ Len(companyDetails) >= 3
  /\ Status(1) = "failed"
  /\ Status(3) = "pending"

C9_StatusLifecycle ==
  [][\A i \in Indices :
       \/ companyDetails'[i].status = Status(i)
       \/ Status(i) = "pending" /\ companyDetails'[i].status = "processing"
       \/ Status(i) = "processing" /\ companyDetails'[i].status \in {"completed", "failed"}]_vars

\* C10: a snapshot is in the sink before every adapter attempt, and every
\* change to a started CompanyProgress is made on a state the sink holds: no
\* progress mutation is overwritten before it has been surfaced.
C10_SurfacedBeforeOverwritten ==
  [][/\ \A c \in inflight' : sink'.companyDetails = companyDetails'
     /\ \A i \in Indices :
          ( /\ companyDetails'[i] # companyDetails[i]
            /\ Status(i) # "pending"
            /\ SinkHeld(i) )
          => sink.companyDetails[i] = companyDetails[i]]_vars

\* C11: with the test-mode flag set exactly one company is processed,
\* testCompany when given and the default 'TCS' otherwise, whatever
\* selectedCompanies holds; the company list and companyDetails have length 1.
C11_TestModeSingleCompany ==
  (testMode /\ pc # "entry") =>
    LET expected == IF testCompany # "" THEN testCompany ELSE DefaultTestCompany
    IN /\ Len(companiesToProcess) = 1
       /\ Len(companyDetails) = 1
       /\ companiesToProcess[1].name = expected
       /\ companyDetails[1].company = expected
       /\ \A k \in 1..Len(calls) : calls[k][1] = 1
       /\ \A k \in 1..Len(completedCompanies) : completedCompanies[k] = expected
       /\ \A k \in 1..Len(failedCompanies) : failedCompanies[k] = expected
       /\ \A k \in 1..Len(allCompanyData) : allCompanyData[k].companyName = expected

C11_Witness ==
  /\ testMode
  /\ testCompany = ""
  /\ Len(selectedCompanies) >= 2
  /\ pc = "returned"
  /\ Len(allCompanyData) = 1
  /\ allCompanyData[1].companyName = DefaultTestCompany

IsPrefix(a, b) == Len(a) <= Len(b) /\ SubSeq(b, 1, Len(a)) = a

\* C12 as stated: a log line, once added, is never removed or reordered: the
\* log after any step is an extension of the log before it.
C12_LogOnlyGrows == [][IsPrefix(logs, logs')]_vars

\* C12: a step appends its lines at the end of the log; lines are removed
\* only from the front, only as many as the log would exceed 50 lines by, and
\* the lines kept stay in their order; the log never has more than 50 lines.
C12_LogAppendedUpToCap ==
  [][/\ Len(logs') <= LogCap
     /\ \E a \in 0..2 :
          LET d == IF Len(logs) + a > LogCap THEN Len(logs) + a - LogCap ELSE 0
          IN /\ Len(logs') = Len(logs) + a - d
             /\ IsPrefix(SubSeq(logs, d + 1, Len(logs)), logs')]_vars

C12_Witness ==
  /\ Len(logs) = LogCap
  /\ logs[1] = << "line", 3 >>
  /\ logs[LogCap] = << "line", LogCap + 2 >>

\* the company whose CompanyResult is the k-th of allCompanyData, and the
\* quarters a result holds when the quarters passing keep are kept
ResultIndex(k) ==
  CHOOSE i \in everCompleted : Cardinality({j \in everCompleted : j <= i}) = k
KeptQuarters(data, keep(_)) ==
  SelectSeq([n \in 1..Len(data) |->
               [quarter |-> data[n].quarter, period |-> data[n].period,
                rawData |-> data[n].indicators]],
            LAMBDA q : keep(q.period))
Requested(period) ==
  /\ period.kind = "fiscal"
  /\ period.q \in selection.quarters
  /\ (2000 + period.yy) \in selection.years
RequestedOrUnparsed(period) == period.kind # "fiscal" \/ Requested(period)

\* C13 as stated: a quarter of the winning source is in the CompanyResult if
\* and only if its quarter number is requested and its fiscal year is
\* requested; every other quarter is dropped.
C13_KeptIffRequested ==
  \A k \in 1..Len(allCompanyData) :
    allCompanyData[k].quarters
      = KeptQuarters(companyDetails[ResultIndex(k)].liveData, Requested)

\* C13: a quarter of the winning source is in the CompanyResult, in source
\* order, if and only if its period is no Qn'YY label, or its quarter number
\* is requested and its fiscal year 2000 + YY is requested.
C13_KeptIffRequestedOrUnparsed ==
  \A k \in 1..Len(allCompanyData) :
    allCompanyData[k].quarters
      = KeptQuarters(companyDetails[ResultIndex(k)].liveData, RequestedOrUnparsed)

C13_Witness ==
  \E k \in 1..Len(allCompanyData) :
    LET live == companyDetails[ResultIndex(k)].liveData
    IN /\ Len(live) = 2
       /\ live[1].period = Period(4, 25)
       /\ selection.quarters = {1}
       /\ Len(allCompanyData[k].quarters) = 1
       /\ allCompanyData[k].quarters[1].period = OtherPeriod

\* the placeholders of the has-meaningful-data predicate as C14 lists them
Placeholders == {Undefined, "null", "--", "NA", ""}
Meaningful(data) ==
  \E i \in 1..Len(data) : \E key \in revenueKeys \cup profitKeys :
    Val(data[i].indicators, key) \notin Placeholders

\* C14: an adapter's result is accepted if and only if at least one quarter
\* holds, under a revenue-family or net-profit-family key, a value that is
\* not a placeholder (missing, null, '--', 'NA' or empty); data in which
\* every such value is a placeholder is rejected and triggers fallback.
C14_AcceptedIffMeaningful ==
  /\ pc = "s1_ok" => Meaningful(quarterlyData)
  /\ (pc = "s1_catch" /\ thrown = "No valid data extracted from Screener.in")
       => ~Meaningful(quarterlyData)

\* ---- the calculator
\* the number a raw cell holds, if it holds one: a number, or text that reads
\* as a number
Reported(k) ==
  LET v == rawData[k]
  IN IF v.kind = "number" THEN Some(v.num)
     ELSE IF v.kind = "string" /\ v.str = "1,234" THEN Some(1234)
     ELSE Null
OrZero(k) == IF Reported(k).has THEN Reported(k).num ELSE 0
IssuesFor(metric) ==
  SelectSeq(calculation.issues, LAMBDA i : i.metric = metric)

\* C15: when Total Income From Operations is available, Contribution is
\* Total Income - (Purchase of Traded Goods or 0) - (Increase / Decrease in
\* Stocks or 0), and no issue is raised for it; when it is unavailable,
\* Contribution is absent and exactly one error issue names Contribution.
C15_Contribution ==
  calculation.done =>
    IF Reported("Total Income From Operations").has
    THEN /\ calculation.calculated.Contribution
              = Some(Reported("Total Income From Operations").num
                       - OrZero("Purchase of Traded Goods")
                       - OrZero("Increase / Decrease in Stocks"))
         /\ IssuesFor("Contribution") = << >>
    ELSE /\ ~calculation.calculated.Contribution.has
         /\ IssuesFor("Contribution") = << Issue("Contribution", "error") >>

C15_Witness ==
  /\ calculation.done
  /\ rawData["Total Income From Operations"] = Num(22697)
  /\ rawData["Purchase of Traded Goods"] = Str("--")
  /\ rawData["Increase / Decrease in Stocks"] = Num(-17)
  /\ calculation.calculated.Contribution = Some(22714)

\* C16: when all eight operands are available, Op. EBITDA = Contribution -
\* Employees Cost - Other Expenses, Op. EBIT = Op. EBITDA - Depreciation,
\* Op. PBT = Op. EBIT - Interest and PBT = Op. PBT + Other Income; the inputs
\* 22697, 105, -17, 13616, 691, 4620, 50, 947 give 22609, 4373, 3682, 3632, 4579.
C16_ChainedIdentities ==
  (calculation.done /\ \A k \in OperandKeys : Reported(k).has) =>
    LET c == calculation.calculated
    IN /\ c.Contribution.has /\ c.OpEBITDA.has /\ c.OpEBIT.has /\ c.OpPBT.has /\ c.PBT.has
       /\ c.OpEBITDA.num = c.Contribution.num - Reported("Employees Cost").num
                             - Reported("Other Expenses").num
       /\ c.OpEBIT.num = c.OpEBITDA.num - Reported("Depreciation").num
       /\ c.OpPBT.num = c.OpEBIT.num - Reported("Interest").num
       /\ c.PBT.num = c.OpPBT.num + Reported("Other Income").num
       /\ rawData = TestRawData =>
            /\ c.Contribution.num = 22609
            /\ c.OpEBITDA.num = 4373
            /\ c.OpEBIT.num = 3682
            /\ c.OpPBT.num = 3632
            /\ c.PBT.num = 4579

C16_Witness ==
  /\ calculation.done
  /\ rawData = [TestRawData EXCEPT !["Op. EBITDA"] = Num(4400),
                                   !["P/L Before Tax"] = Num(4600)]
  /\ calculation.calculated.OpEBITDA = Some(4373)
  /\ calculation.calculated.PBT = Some(4579)

PlaceholderCells == {Str("--"), Str("NA"), Str("")}
ReportedOpEbitda == Coalesce(Reported("Op. EBITDA"), Reported("Operating Profit"))
ReportedPbt == Coalesce(Reported("P/L Before Tax"), Reported("Profit before tax"))
HasIssue(metric, severity) ==
  \E i \in 1..Len(calculation.issues) : calculation.issues[i] = Issue(metric, severity)

\* C17: a raw value that is '--', 'NA' or empty gives the result the map gives
\* with that key missing, and is never counted as zero: with such an
\* Employees Cost or Other Expenses the strict Op. EBITDA formula is not
\* applied, with such a Depreciation Op. EBIT is absent with a warning, with
\* such an Interest Op. PBT is absent with a warning, with such a Total Income
\* Contribution is absent with an error.
C17_PlaceholderIsMissing ==
  calculation.done =>
    LET c == calculation.calculated
        placeholder(k) == rawData[k] \in PlaceholderCells
    IN /\ \A k \in RawKeys :
            placeholder(k) =>
              calculation = calculateDerivedMetrics([rawData EXCEPT ![k] = NoValue])
       /\ (placeholder("Employees Cost") \/ placeholder("Other Expenses"))
            => c.OpEBITDA = ReportedOpEbitda
       /\ placeholder("Depreciation")
            => ~c.OpEBIT.has /\ HasIssue("Op. EBIT", "warning")
       /\ placeholder("Interest")
            => ~c.OpPBT.has /\ HasIssue("Op. PBT", "warning")
       /\ placeholder("Other Income") => c.PBT = ReportedPbt
       /\ placeholder("Total Income From Operations")
            => ~c.Contribution.has /\ HasIssue("Contribution", "error")

C17_Witness ==
  /\ calculation.done
  /\ rawData["Employees Cost"] = Str("--")
  /\ rawData["Depreciation"] = Str("--")
  /\ rawData["Op. EBITDA"] = NoValue
  /\ rawData["Operating Profit"] = NoValue
  /\ calculation.calculated.Contribution = Some(22609)
  /\ ~calculation.calculated.OpEBITDA.has
  /\ ~calculation.calculated.OpEBIT.has

\* C18: Op. EBITDA% (Op. EBIT%) is present exactly when Revenue is present
\* and not 0 and Op. EBITDA (Op. EBIT) is present, and then it equals
\* 100 x metric / Revenue (the fraction num / den with num = 100 x metric and
\* den = Revenue); no percentage has a zero divisor.
C18_Percentages ==
  calculation.done =>
    LET c == calculation.calculated
        ok(metric, pct) ==
          /\ pct.has <=> (c.Revenue.has /\ c.Revenue.num # 0 /\ metric.has)
          /\ pct.has => /\ pct.den # 0
                        /\ pct.num = 100 * metric.num
                        /\ pct.den = c.Revenue.num
    IN ok(c.OpEBITDA, c.OpEBITDAPct) /\ ok(c.OpEBIT, c.OpEBITPct)

C18_Witness ==
  /\ calculation.done
  /\ calculation.calculated.Revenue = Some(0)
  /\ rawData["Total Income From Operations"] = Num(22697)
  /\ calculation.calculated.OpEBITDA.has
  /\ calculation.calculated.OpEBIT.has
  /\ ~calculation.calculated.OpEBITDAPct.has
  /\ ~calculation.calculated.OpEBITPct.has

\* C19: Revenue is the first available value in the key order Net Sales /
\* Income from Operations, Revenue, Net Sales, Sales, Income, Total Income From
\* Operations, and is absent when none of them is available.
C19_RevenueKeyOrder ==
  calculation.done =>
    LET order == << "Net Sales / Income from Operations", "Revenue", "Net Sales",
                    "Sales", "Income", "Total Income From Operations" >>
        avail == {i \in 1..Len(order) : Reported(order[i]).has}
        first == CHOOSE i \in avail : \A j \in avail : i <= j
    IN calculation.calculated.Revenue
         = IF avail = {} THEN Null ELSE Reported(order[first])

C19_Witness ==
  /\ calculation.done
  /\ rawData["Net Sales / Income from Operations"] = Str("--")
  /\ rawData["Revenue"] = NoValue
  /\ rawData["Net Sales"] = NoValue
  /\ rawData["Sales"] = Num(19000)
  /\ rawData["Total Income From Operations"] = Num(22697)
  /\ calculation.calculated.Revenue = Some(19000)

\* C20: Op. EBITDA is Contribution - Employees Cost - Other Expenses when the
\* three are available, otherwise the reported operating profit when
\* available, otherwise absent with an error issue; PBT is Op. PBT + Other
\* Income when both are available, otherwise the reported pre-tax profit when
\* available, otherwise absent with an error issue.
C20_FormulaBeforeReported ==
  calculation.done =>
    LET c == calculation.calculated
    IN /\ c.OpEBITDA
            = IF c.Contribution.has /\ Reported("Employees Cost").has
                 /\ Reported("Other Expenses").has
              THEN Some(c.Contribution.num - Reported("Employees Cost").num
                          - Reported("Other Expenses").num)
              ELSE ReportedOpEbitda
       /\ IssuesFor("Op. EBITDA")
            = IF c.OpEBITDA.has THEN << >> ELSE << Issue("Op. EBITDA", "error") >>
       /\ c.PBT
            = IF c.OpPBT.has /\ Reported("Other Income").has
              THEN Some(c.OpPBT.num + Reported("Other Income").num)
              ELSE ReportedPbt
       /\ HasIssue("PBT", "error") <=> ~c.PBT.has

C20_Witness ==
  /\ calculation.done
  /\ rawData["Op. EBITDA"] = Num(4400)
  /\ calculation.calculated.OpEBITDA = Some(4373)
  /\ rawData["Other Income"] = NoValue
  /\ calculation.calculated.OpPBT = Some(3632)
  /\ calculation.calculated.PBT = Some(4600)

\* ---- the period mappers
\* the fiscal convention: Jan-Mar is Q4 of the calendar year, Apr-Jun Q1,
\* Jul-Sep Q2 and Oct-Dec Q3 of the calendar year plus one
ConventionQuarter(month) ==
  IF month <= 3 THEN 4 ELSE IF month <= 6 THEN 1 ELSE IF month <= 9 THEN 2 ELSE 3
ConventionYear(month, year) == IF month <= 3 THEN year ELSE year + 1

\* C21: for every month and year the three period mappers give the quarter
\* and fiscal year of the fiscal convention.
C21_SameFiscalConvention ==
  periods.done =>
    LET q == ConventionQuarter(header.month)
        fy == ConventionYear(header.month, header.year)
    IN /\ periods.moneycontrol = Period(q, fy % 100)
       /\ periods.screener = Period(q, fy % 100)
       /\ periods.shared = [quarterNumber |-> q, fiscalYear |-> fy]

\* ---- the normalizer
\* C22: the normalizer is idempotent and total: it gives a name for every
\* label, normalizing that name again gives the same name, and a label the
\* synonym table does not hold is returned unchanged.
C22_NormalizerIdempotent ==
  normalized.done =>
    /\ normalized.once.kind = "string"
    /\ normalized.twice = normalized.once
    /\ lowerTrimmed(label) \notin DOMAIN indicatorMapping
         => normalized.once = Text(label)

\* ---- the retry loops
Failed(outcome) == outcome \in {"error", "errorSecond"}
FailedAttempts == {k \in DOMAIN loop.tried : Failed(loop.tried[k])}
BaseDelay == IF call.fn = "scrapeMoneyControl" THEN 2000 ELSE 1000
Exhausted == Len(loop.tried) = call.maxRetries /\ Failed(loop.tried[call.maxRetries])

\* C23: a retrying call makes at most maxRetries attempts (3 in
\* scrapeMoneyControl); after failed attempt k it waits base * 2^(k-1) (base
\* 2 s in scrapeMoneyControl, 1 s in searchScreenerCompanyWithRetry) only when
\* another attempt follows; after the last failed attempt it ends without a
\* further wait or attempt, scrapeMoneyControl throwing the last error.
C23_BoundedRetry ==
  loop.pc # "none" =>
    /\ Len(loop.tried) <= call.maxRetries
    /\ call.fn = "scrapeMoneyControl" => call.maxRetries = 3
    /\ \A k \in DOMAIN loop.waits :
         /\ loop.waits[k] = BaseDelay * Pow2(k - 1)
         /\ Failed(loop.tried[k])
         /\ k < call.maxRetries
    /\ loop.pc = "try" =>
         /\ Len(loop.tried) = loop.attempt - 1
         /\ Len(loop.waits) = Len(loop.tried)
         /\ FailedAttempts = DOMAIN loop.tried
    /\ loop.pc \in {"returned", "thrown"} =>
         /\ Len(loop.waits) = Len(loop.tried) - 1
         /\ Exhausted =>
              /\ Len(loop.waits) = call.maxRetries - 1
              /\ IF call.fn = "scrapeMoneyControl"
                 THEN loop.pc = "thrown" /\ loop.thrown = loop.lastError
                      /\ loop.thrown \in Errors
                 ELSE loop.pc = "returned" /\ loop.result = "null"
         /\ loop.pc = "thrown" => Exhausted

C23_Witness ==
  /\ call.fn = "scrapeMoneyControl"
  /\ loop.pc = "thrown"
  /\ loop.tried = << "error", "error", "error" >>
  /\ loop.waits = << 2000, 4000 >>
  /\ loop.thrown = "ECONNRESET"

NotConfigured(i) == companiesToProcess[i].moneyControlUrl = ""
Step1Failed(i) == \E k \in 1..Len(calls) : calls[k] = << i, 1, FALSE >>

\* C25: for a company with no MoneyControl URL the catch block of step 1
\* takes the fail-fast branch: the skip is logged and an error is thrown,
\* scrapeMoneyControl is not called for the company and no step-2 request is
\* ever in flight for it.
C25_NoUrlNoStep2Call ==
  \A i \in Indices :
    NotConfigured(i) =>
      /\ \A k \in 1..Len(calls) : calls[k][1] = i => calls[k][2] # 2
      /\ << i, 2 >> \notin inflight
      /\ companyDetails[i].dataSource # "moneycontrol"
      /\ (pc = "s1_catch" /\ idx = i) => ENABLED Step1Catch /\ ~ENABLED Step2Begin
      /\ (pc = "catch" /\ idx = i /\ Step1Failed(i))
           => /\ thrown = "No data sources available"
              /\ \E k \in 1..Len(logs) : logs[k] = << "[Step 2] Skipping MoneyControl", i >>

C25_Witness ==
  \E i \in Indices :
    /\ NotConfigured(i)
    /\ Step1Failed(i)
    /\ pc = "catch" /\ idx = i
    /\ thrown = "No data sources available"
    /\ CallsOf(i) = << << i, 1, FALSE >> >>

Appended == SubSeq(repair.repairedJson, Len(repair.stripped) + 1, Len(repair.repairedJson))

\* C26: when the extracted payload does not parse, the repaired text is the
\* stripped text followed by closers only, as many ']' as '[' are unmatched
\* in the stripped text and as many '}' as '{' are unmatched in it, so that
\* the repaired text has as many closing as opening brackets of each kind.
C26_RepairBalances ==
  (repair.done /\ ~repair.parsed) =>
    /\ SubSeq(repair.repairedJson, 1, Len(repair.stripped)) = repair.stripped
    /\ AllIn(Appended, 1, Len(Appended), {"]", "}"})
    /\ Count(Appended, "]") = Count(repair.stripped, "[") - Count(repair.stripped, "]")
    /\ Count(Appended, "}") = Count(repair.stripped, "{") - Count(repair.stripped, "}")
    /\ Count(repair.repairedJson, "[") = Count(repair.repairedJson, "]")
    /\ Count(repair.repairedJson, "{") = Count(repair.repairedJson, "}")

\* ---- previous quarters
\* quarters counted from fiscal year 0: Q1 of year y is number 4y
Ordinal(q) == 4 * q.fiscalYear + (q.quarterNumber - 1)

\* C27: getPreviousQuarters(q, n) returns exactly n quarters, the k-th being
\* the quarter k steps before q: the quarter number goes down by one within a
\* fiscal year, and Q1 of fiscal year y follows Q4 of fiscal year y - 1.
C27_PreviousQuarters ==
  previous.done =>
    /\ Len(previous.quarters) = asked.count
    /\ \A k \in 1..Len(previous.quarters) :
         LET this == previous.quarters[k]
             before == IF k = 1 THEN asked.quarter ELSE previous.quarters[k - 1]
         IN /\ this.quarterNumber \in 1..4
            /\ Ordinal(this) = Ordinal(asked.quarter) - k
            /\ IF before.quarterNumber = 1
               THEN this.quarterNumber = 4 /\ this.fiscalYear = before.fiscalYear - 1
               ELSE /\ this.quarterNumber = before.quarterNumber - 1
                    /\ this.fiscalYear = before.fiscalYear

C27_Witness ==
  /\ previous.done
  /\ asked.quarter.quarterNumber = 1
  /\ asked.quarter.fiscalYear = 2026
  /\ asked.count = 3
  /\ Len(previous.quarters) = 3
  /\ previous.quarters[1].quarterNumber = 4 /\ previous.quarters[1].fiscalYear = 2025
  /\ previous.quarters[3].quarterNumber = 2 /\ previous.quarters[3].fiscalYear = 2025

\* ---- the log in the snapshots
LinesOf(snapshot) == {snapshot.logs[k] : k \in 1..Len(snapshot.logs)}

\* C29: every snapshot written to the sink carries the log buffer as it is
\* at the moment of the write, never more than 50 lines, and holds every line
\* of the snapshot before it unless the buffer is at its cap and has evicted.
C29_SnapshotCarriesLog ==
  [][sink' # sink =>
       /\ sink'.logs = logs
       /\ Len(sink'.logs) <= LogCap
       /\ (Len(logs) < LogCap => LinesOf(sink) \subseteq LinesOf(sink'))]_vars

\* ---- completion and the quarter filter
PassesPredicate(data) == Len(data) # 0 /\ hasValidData(data)

\* C30: a company whose source data passes the has-meaningful-data predicate
\* is completed whatever the quarter filter keeps: it fails in step 1 only
\* when the data does not pass the predicate; when it finishes, one
\* CompanyResult is appended (with no quarters when none is requested), the
\* company is marked completed and counted; and a run that returns with a
\* CompanyResult reports success.
C30_CompletedWhateverTheFilter ==
  /\ [](pc = "s1_catch" => ~PassesPredicate(quarterlyData))
  /\ [](pc = "finish" => PassesPredicate(quarterlyData))
  /\ [][pc = "finish" =>
          /\ Len(allCompanyData') = Len(allCompanyData) + 1
          /\ allCompanyData'[Len(allCompanyData')].companyName = companyDetails[idx].company
          /\ (\A n \in 1..Len(quarterlyData) : ~RequestedOrUnparsed(quarterlyData[n].period))
               => allCompanyData'[Len(allCompanyData')].quarters = << >>
          /\ companyDetails'[idx].status = "completed"
          /\ completedCompanies' = Append(completedCompanies, companyDetails[idx].company)]_vars
  /\ [](Returned =>
          /\ Len(result.extractedData) = Cardinality(everCompleted)
          /\ everCompleted # {} => result.success)

C30_Witness ==
  /\ Returned
  /\ result.success
  /\ selection.quarters = {4}
  /\ \E k \in 1..Len(result.extractedData) :
       /\ result.extractedData[k].quarters = << >>
       /\ Status(ResultIndex(k)) = "completed"
       /\ Len(companyDetails[ResultIndex(k)].liveData) = 1
       /\ companyDetails[ResultIndex(k)].liveData[1].period = Period(1, 26)

====
